---------------------------- MODULE Spec2Model ----------------------------
(***************************************************************************)
(* CHZZK streamer blocker: the content script (native context-menu         *)
(* variant, src/unnamed/part_002) and the background script                *)
(* (src/background.js) as a state machine.                                 *)
(*                                                                         *)
(* A JavaScript string is a sequence of one-character strings, so that     *)
(* toLowerCase, trim, includes, replace and split are computed, not        *)
(* assumed.  A Hangul syllable is one character written by its code point  *)
(* ("U+CC44").                                                             *)
(***************************************************************************)
EXTENDS Integers, Sequences, FiniteSets, TLC

(***************************************************************************)
(* String primitives                                                       *)
(***************************************************************************)
UpperChars == <<"A","B","C","D","E","F","G","H","I","J","K","L","M",
                "N","O","P","Q","R","S","T","U","V","W","X","Y","Z">>

LowerChars == <<"a","b","c","d","e","f","g","h","i","j","k","l","m",
                "n","o","p","q","r","s","t","u","v","w","x","y","z">>

WhiteSpace == {" ", "\n", "\t"}

IsUpper(c) == \E i \in 1..Len(UpperChars) : UpperChars[i] = c

IsLatin(c) == \E i \in 1..Len(UpperChars) : UpperChars[i] = c \/ LowerChars[i] = c

\* The Hangul syllables block [U+AC00, U+D7A3], one token per syllable.
HangulChars == {"U+B77C", "U+C774", "U+BE0C", "U+CC44", "U+B110", "U+B85C",
                "U+B3D9", "U+BC29", "U+C1A1", "U+C2A4", "U+D2B8", "U+B9BC",
                "U+B9AC", "U+BA38", "U+C778", "U+C99D", "U+B9C8", "U+D06C",
                "U+AC8C", "U+C784", "U+C5D4", "U+B4DC", "U+ADF8", "U+C744",
                "U+B97C", "U+C758", "U+C5D0", "U+B294", "U+AC00", "U+D55C",
                "U+C218"}

IsHangul(c) == c \in HangulChars

LowerChar(c) ==
  IF IsUpper(c)
  THEN LowerChars[CHOOSE i \in 1..Len(UpperChars) : UpperChars[i] = c]
  ELSE c

\* String.prototype.toLowerCase
toLowerCase(s) == [i \in 1..Len(s) |-> LowerChar(s[i])]

\* String.prototype.trim
trim(s) ==
  LET keep == {i \in 1..Len(s) : s[i] \notin WhiteSpace}
  IN  IF keep = {} THEN <<>>
      ELSE LET lo == CHOOSE i \in keep : \A j \in keep : i <= j
               hi == CHOOSE i \in keep : \A j \in keep : i >= j
           IN  SubSeq(s, lo, hi)

\* String.prototype.includes
includes(s, sub) ==
  \E i \in 0..(Len(s) - Len(sub)) : SubSeq(s, i + 1, i + Len(sub)) = sub

\* Array.prototype.includes / indexOf on a sequence of strings
arrayIncludes(arr, x) == \E i \in 1..Len(arr) : arr[i] = x

\* sub matches s at position i (1-based), ignoring case when ci
MatchesAt(s, i, sub, ci) ==
  /\ i + Len(sub) - 1 <= Len(s)
  /\ \A j \in 1..Len(sub) :
        IF ci THEN LowerChar(s[i + j - 1]) = LowerChar(sub[j])
        ELSE s[i + j - 1] = sub[j]

Min(S) == CHOOSE x \in S : \A y \in S : x <= y

\* s.replace(/p1|p2|.../gi, ''): at each position the first alternative that
\* matches is removed, the scan resumes after it.
RECURSIVE RemovePhrases(_, _, _)
RemovePhrases(s, i, phrases) ==
  IF i > Len(s) THEN <<>>
  ELSE LET hits == {k \in 1..Len(phrases) : MatchesAt(s, i, phrases[k], TRUE)}
       IN  IF hits = {}
           THEN <<s[i]>> \o RemovePhrases(s, i + 1, phrases)
           ELSE RemovePhrases(s, i + Len(phrases[Min(hits)]), phrases)

\* s.replace(/\s+/g, ' ')
RECURSIVE CollapseSpaces(_, _)
CollapseSpaces(s, i) ==
  IF i > Len(s) THEN <<>>
  ELSE IF s[i] \in WhiteSpace
       THEN IF i > 1 /\ s[i - 1] \in WhiteSpace
            THEN CollapseSpaces(s, i + 1)
            ELSE <<" ">> \o CollapseSpaces(s, i + 1)
       ELSE <<s[i]>> \o CollapseSpaces(s, i + 1)

\* /채널로 이동|channel|live|LIVE|라이브|인증 마크|스트리머|채널|방송/gi
NamePhrases ==
  << <<"U+CC44","U+B110","U+B85C"," ","U+C774","U+B3D9">>,
     <<"c","h","a","n","n","e","l">>,
     <<"l","i","v","e">>,
     <<"L","I","V","E">>,
     <<"U+B77C","U+C774","U+BE0C">>,
     <<"U+C778","U+C99D"," ","U+B9C8","U+D06C">>,
     <<"U+C2A4","U+D2B8","U+B9AC","U+BA38">>,
     <<"U+CC44","U+B110">>,
     <<"U+BC29","U+C1A1">> >>

\* /라이브 엔드로 이동|live|stream|LIVE|라이브/gi
TitlePhrases ==
  << <<"U+B77C","U+C774","U+BE0C"," ","U+C5D4","U+B4DC","U+B85C"," ","U+C774","U+B3D9">>,
     <<"l","i","v","e">>,
     <<"s","t","r","e","a","m">>,
     <<"L","I","V","E">>,
     <<"U+B77C","U+C774","U+BE0C">> >>

cleanName(text) == trim(CollapseSpaces(RemovePhrases(text, 1, NamePhrases), 1))

cleanTitle(text) == trim(CollapseSpaces(RemovePhrases(text, 1, TitlePhrases), 1))

\* /[\s,\[\]()]+/
TitleSeparators == WhiteSpace \cup {",", "[", "]", "(", ")"}

\* s.split(/[\s,\[\]()]+/): cur is the token being read
RECURSIVE SplitFrom(_, _, _)
SplitFrom(s, i, cur) ==
  IF i > Len(s) THEN <<cur>>
  ELSE IF s[i] \in TitleSeparators
       THEN IF i > 1 /\ s[i - 1] \in TitleSeparators
            THEN SplitFrom(s, i + 1, cur)
            ELSE <<cur>> \o SplitFrom(s, i + 1, <<>>)
       ELSE SplitFrom(s, i + 1, Append(cur, s[i]))

\* /^(the|and|or|in|on|at|to|for|of|with|by|그|이|을|를|의|에|는|가|한|수)$/i
StopWords ==
  { <<"t","h","e">>, <<"a","n","d">>, <<"o","r">>, <<"i","n">>, <<"o","n">>,
    <<"a","t">>, <<"t","o">>, <<"f","o","r">>, <<"o","f">>,
    <<"w","i","t","h">>, <<"b","y">>,
    <<"U+ADF8">>, <<"U+C774">>, <<"U+C744">>, <<"U+B97C">>, <<"U+C758">>,
    <<"U+C5D0">>, <<"U+B294">>, <<"U+AC00">>, <<"U+D55C">>, <<"U+C218">> }

MaxNameLen == 50

MaxTagLen == 20

MinWordLen == 1

MaxWordLen == 10

MinHangulRun == 2

MaxHangulRun == 8

MinLatinRun == 3

MaxLatinRun == 15

\* the words of the title kept as extra tags
titleWords(title) ==
  SelectSeq(SplitFrom(title, 1, <<>>),
            LAMBDA w : /\ Len(w) > MinWordLen
                       /\ Len(w) < MaxWordLen
                       /\ toLowerCase(w) \notin StopWords)

\* pushes each element of ws that tags does not hold yet
RECURSIVE pushNew(_, _)
pushNew(tags, ws) ==
  IF ws = <<>> THEN tags
  ELSE pushNew(IF arrayIncludes(tags, Head(ws)) THEN tags ELSE Append(tags, Head(ws)),
               Tail(ws))

\* allText.match(/[가-힣]{lo,hi}/) when hangul, allText.match(/[A-Za-z]{lo,hi}/)
\* otherwise: the leftmost run of at least lo characters of the class, cut at
\* hi characters; <<>> when there is none (null)
RunMatch(s, hangul, lo, hi) ==
  LET InClass(c) == IF hangul THEN IsHangul(c) ELSE IsLatin(c)
      starts == {i \in 1..Len(s) :
                   /\ i + lo - 1 <= Len(s)
                   /\ \A j \in i..(i + lo - 1) : InClass(s[j])}
  IN  IF starts = {} THEN <<>>
      ELSE LET i == Min(starts)
               ends == {e \in i..Len(s) :
                          /\ e - i + 1 <= hi
                          /\ \A j \in i..e : InClass(s[j])}
               e == CHOOSE x \in ends : \A y \in ends : x >= y
           IN  SubSeq(s, i, e)

(***************************************************************************)
(* Card markup.  A card is an element with a tag name, class names and the *)
(* inline display style the page gave it ("" for none); its descendants    *)
(* are leaf elements in document order, each with class names and a text.  *)
(* The card's textContent is the concatenation of the texts.               *)
(***************************************************************************)
RECURSIVE Concat(_)
Concat(ss) == IF ss = <<>> THEN <<>> ELSE Head(ss) \o Concat(Tail(ss))

textContent(markup) == Concat([i \in 1..Len(markup.elems) |-> markup.elems[i].text])

\* hasClassContaining(classList, substring)
hasClassContaining(classList, substring) ==
  \E k \in 1..Len(classList) :
     includes(toLowerCase(classList[k]), toLowerCase(substring))

\* element.matches('[class*="needle"]'): the class attribute, case kept
classAttrContains(classList, needle) ==
  \E k \in 1..Len(classList) : includes(classList[k], needle)

S_name_text == <<"n","a","m","e","_","t","e","x","t">>
S_channel   == <<"c","h","a","n","n","e","l">>
S_name      == <<"n","a","m","e">>
S_ellipsis  == <<"e","l","l","i","p","s","i","s">>
S_title     == <<"t","i","t","l","e">>
S_tag       == <<"t","a","g">>
S_category  == <<"c","a","t","e","g","o","r","y">>
S_genre     == <<"g","e","n","r","e">>
S_live      == <<"l","i","v","e">>
S_stream    == <<"s","t","r","e","a","m">>
S_LIVE      == <<"L","I","V","E">>

ExcludedHangul ==
  { <<"U+B77C","U+C774","U+BE0C">>, <<"U+CC44","U+B110">>, <<"U+C774","U+B3D9">>,
    <<"U+BC29","U+C1A1">>, <<"U+C2A4","U+D2B8","U+B9BC">> }

ExcludedLatin == { S_LIVE, S_live, S_channel, S_stream }

\* extractStreamerInfo, step 1: the [class*="name_text"] element
nameFromNameText(markup) ==
  LET E == markup.elems
      hits == {i \in 1..Len(E) : classAttrContains(E[i].classes, S_name_text)}
  IN  IF hits = {} THEN <<>>
      ELSE LET nameText == trim(E[Min(hits)].text)
           IN  IF Len(nameText) > 0 /\ Len(nameText) < MaxNameLen
               THEN nameText ELSE <<>>

\* step 2 without the test of a name being set: the last usable element wins
nameFromClassesLast(markup) ==
  LET E == markup.elems
      ok(i) == /\ trim(E[i].text) # <<>>
               /\ \/ hasClassContaining(E[i].classes, S_channel)
                  \/ hasClassContaining(E[i].classes, S_name)
                  \/ hasClassContaining(E[i].classes, S_ellipsis)
               /\ Len(cleanName(trim(E[i].text))) > 0
               /\ Len(cleanName(trim(E[i].text))) < MaxNameLen
      hits == {i \in 1..Len(E) : ok(i)}
  IN  IF hits = {} THEN <<>>
      ELSE cleanName(trim(E[CHOOSE i \in hits : \A j \in hits : i >= j].text))

\* step 2: the first channel/name/ellipsis element with a usable cleaned text
nameFromClasses(markup) ==
  LET E == markup.elems
      ok(i) == /\ trim(E[i].text) # <<>>
               /\ \/ hasClassContaining(E[i].classes, S_channel)
                  \/ hasClassContaining(E[i].classes, S_name)
                  \/ hasClassContaining(E[i].classes, S_ellipsis)
               /\ Len(cleanName(trim(E[i].text))) > 0
               /\ Len(cleanName(trim(E[i].text))) < MaxNameLen
      hits == {i \in 1..Len(E) : ok(i)}
  IN  IF hits = {} THEN <<>> ELSE cleanName(trim(E[Min(hits)].text))

\* the title: the first title element with a non-empty cleaned text
titleOf(markup) ==
  LET E == markup.elems
      ok(i) == /\ trim(E[i].text) # <<>>
               /\ hasClassContaining(E[i].classes, S_title)
               /\ Len(cleanTitle(trim(E[i].text))) > 0
      hits == {i \in 1..Len(E) : ok(i)}
  IN  IF hits = {} THEN <<>> ELSE cleanTitle(trim(E[Min(hits)].text))

\* the tags read verbatim from tag/category/genre elements, in document order
RECURSIVE labelledTags(_, _, _)
labelledTags(E, i, tags) ==
  IF i > Len(E) THEN tags
  ELSE LET t == trim(E[i].text)
           take == /\ t # <<>>
                   /\ \/ hasClassContaining(E[i].classes, S_tag)
                      \/ hasClassContaining(E[i].classes, S_category)
                      \/ hasClassContaining(E[i].classes, S_genre)
                   /\ Len(t) > 0
                   /\ Len(t) < MaxTagLen
                   /\ ~arrayIncludes(tags, t)
       IN  labelledTags(E, i + 1, IF take THEN Append(tags, t) ELSE tags)

\* step 5: the whole-card text scan
nameFromText(markup) ==
  LET allText == textContent(markup)
      koreanMatch  == RunMatch(allText, TRUE, MinHangulRun, MaxHangulRun)
      englishMatch == RunMatch(allText, FALSE, MinLatinRun, MaxLatinRun)
  IN  IF koreanMatch # <<>>
      THEN IF koreanMatch \notin ExcludedHangul THEN koreanMatch ELSE <<>>
      ELSE IF englishMatch # <<>>
           THEN IF englishMatch \notin ExcludedLatin THEN englishMatch ELSE <<>>
           ELSE <<>>

extractStreamerInfo(markup) ==
  LET n1 == nameFromNameText(markup)
      n2 == IF n1 # <<>> THEN n1 ELSE nameFromClasses(markup)
      title == titleOf(markup)
      tags1 == labelledTags(markup.elems, 1, <<>>)
      tags2 == IF title # <<>> THEN pushNew(tags1, titleWords(title)) ELSE tags1
      n3 == IF n2 # <<>> THEN n2 ELSE nameFromText(markup)
  IN  [name |-> n3, title |-> title, tags |-> tags2]

(***************************************************************************)
(* Matcher                                                                 *)
(***************************************************************************)
\* matchesStreamer without the test of the entry containing the name
matchesStreamerOneWay(streamerInfo, blockedName) ==
  LET cleanBlockedName  == trim(toLowerCase(blockedName))
      cleanStreamerName == trim(toLowerCase(streamerInfo.name))
  IN  \/ includes(cleanStreamerName, cleanBlockedName)
      \/ includes(toLowerCase(streamerInfo.title), cleanBlockedName)

\* matchesTag without the test of the title
matchesTagNoTitle(streamerInfo, blockedTag) ==
  LET cleanBlockedTag == trim(toLowerCase(blockedTag))
  IN  \E k \in 1..Len(streamerInfo.tags) :
         \/ includes(toLowerCase(streamerInfo.tags[k]), cleanBlockedTag)
         \/ includes(cleanBlockedTag, toLowerCase(streamerInfo.tags[k]))

matchesStreamer(streamerInfo, blockedName) ==
  LET cleanBlockedName  == trim(toLowerCase(blockedName))
      cleanStreamerName == trim(toLowerCase(streamerInfo.name))
  IN  \/ includes(cleanStreamerName, cleanBlockedName)
      \/ includes(cleanBlockedName, cleanStreamerName)
      \/ includes(toLowerCase(streamerInfo.title), cleanBlockedName)

matchesTag(streamerInfo, blockedTag) ==
  LET cleanBlockedTag == trim(toLowerCase(blockedTag))
  IN  \/ \E k \in 1..Len(streamerInfo.tags) :
            \/ includes(toLowerCase(streamerInfo.tags[k]), cleanBlockedTag)
            \/ includes(cleanBlockedTag, toLowerCase(streamerInfo.tags[k]))
      \/ includes(toLowerCase(streamerInfo.title), cleanBlockedTag)

(***************************************************************************)
(* Selector catalog                                                        *)
(***************************************************************************)
C_nav_item_hash  == <<"n","a","v","i","g","a","t","i","o","n","_","c","o","m","p","o","n","e","n","t","_","i","t","e","m","_","_","i","M","P","O","I">>
C_video_hash     == <<"v","i","d","e","o","_","c","a","r","d","_","c","o","n","t","a","i","n","e","r","_","_","u","r","j","O","6">>
S_video_card     == <<"v","i","d","e","o","_","c","a","r","d","_","c","o","n","t","a","i","n","e","r">>
S_nav_item       == <<"n","a","v","i","g","a","t","i","o","n","_","c","o","m","p","o","n","e","n","t","_","i","t","e","m">>
S_live_card      == <<"l","i","v","e","_","c","a","r","d">>
S_stream_card    == <<"s","t","r","e","a","m","_","c","a","r","d">>
S_item           == <<"i","t","e","m">>
S_card           == <<"c","a","r","d">>

\* a query: tag name ("" for any), a class it names (<<>> for none), a
\* substring of the class attribute (<<>> for none)
Sel(tag, cls, sub) == [tag |-> tag, cls |-> cls, sub |-> sub]

\* findStreamCards: const selectors = [...]
selectors ==
  << Sel("", C_nav_item_hash, <<>>),
     Sel("li", C_nav_item_hash, <<>>),
     Sel("", C_video_hash, <<>>),
     Sel("", <<>>, S_video_card),
     Sel("", <<>>, S_nav_item),
     Sel("", <<>>, S_live_card),
     Sel("", <<>>, S_stream_card),
     Sel("li", <<>>, S_item),
     Sel("div", <<>>, S_card),
     Sel("article", <<>>, S_card) >>

\* element.matches(selector)
matchesSelector(markup, sel) ==
  /\ sel.tag = "" \/ markup.tag = sel.tag
  /\ sel.cls = <<>> \/ arrayIncludes(markup.classes, sel.cls)
  /\ sel.sub = <<>> \/ classAttrContains(markup.classes, sel.sub)

(***************************************************************************)
(* The markups the page renders.  The descendants are span elements whose  *)
(* classes match no query of the catalog.                                  *)
(***************************************************************************)
El(classes, text) == [classes |-> classes, text |-> text]

T_Nova_TV == <<"N","o","v","a","_","T","V">>
T_Nova    == <<"N","o","v","a">>
T_Luna    == <<"L","u","n","a">>
T_Foo     == <<"F","o","o">>
T_game    == <<"g","a","m","e">>
T_chess   == <<"c","h","e","s","s">>
T_fun     == <<"f","u","n">>

\* <li class="navigation_component_item__iMPOI">
\*   <span class="name_text__yQG50"> Nova_TV </span></li>
NovaCard ==
  [tag |-> "li", classes |-> << C_nav_item_hash >>,
   style |-> "",
   elems |-> << El(<< <<"n","a","m","e","_","t","e","x","t","_","_","y","Q","G","5","0">> >>, <<" ","N","o","v","a","_","T","V"," ">>) >>]

\* <div class="video_card_container__urjO6" style="display: flex">
\*   <span class="video_channel">Luna channel</span>
\*   <span class="video_title">LIVE chess [fun]</span>
\*   <span class="video_category">game</span></div>
LunaCard ==
  [tag |-> "div", classes |-> << C_video_hash >>, style |-> "flex",
   elems |-> << El(<< <<"v","i","d","e","o","_","c","h","a","n","n","e","l">> >>, <<"L","u","n","a"," ","c","h","a","n","n","e","l">>),
                El(<< <<"v","i","d","e","o","_","t","i","t","l","e">> >>, <<"L","I","V","E"," ","c","h","e","s","s"," ","[","f","u","n","]">>),
                El(<< <<"v","i","d","e","o","_","c","a","t","e","g","o","r","y">> >>, <<"g","a","m","e">>) >>]

\* <article class="stream_card"><span class="thumb">12:30</span></article>
AnonCard ==
  [tag |-> "article", classes |-> << S_stream_card >>, style |-> "",
   elems |-> << El(<< <<"t","h","u","m","b">> >>, <<"1","2",":","3","0">>) >>]

\* <li class="list_item"><span class="text_ellipsis">Foo</span></li>
FooCard ==
  [tag |-> "li", classes |-> << <<"l","i","s","t","_","i","t","e","m">> >>, style |-> "",
   elems |-> << El(<< <<"t","e","x","t","_","e","l","l","i","p","s","i","s">> >>, <<"F","o","o">>) >>]

\* <div class="wrapper"><span class="card_badge">new</span></div>
WrapperDiv ==
  [tag |-> "div", classes |-> << <<"w","r","a","p","p","e","r">> >>, style |-> "",
   elems |-> << El(<< <<"c","a","r","d","_","b","a","d","g","e">> >>, <<"n","e","w">>) >>]

\* <div class="footer"><span class="copy">c</span></div>
FooterDiv ==
  [tag |-> "div", classes |-> << <<"f","o","o","t","e","r">> >>, style |-> "",
   elems |-> << El(<< <<"c","o","p","y">> >>, <<"c">>) >>]

CardCatalog == << NovaCard, LunaCard, AnonCard, FooCard, WrapperDiv, FooterDiv >>

\* extractStreamerInfo(card), per markup of the page
CardInfo == [m \in 1..Len(CardCatalog) |-> extractStreamerInfo(CardCatalog[m])]

\* element.matches(selectors[k]), per markup of the page
SelectorMatch ==
  [m \in 1..Len(CardCatalog) |->
     [k \in 1..Len(selectors) |-> matchesSelector(CardCatalog[m], selectors[k])]]

\* the markups some query of findStreamCards matches
StreamCardMarkups ==
  {m \in 1..Len(CardCatalog) : \E k \in 1..Len(selectors) : SelectorMatch[m][k]}

\* the blocklist entries of the inputs and the names the catalog's cards yield
Entries == {T_Nova, T_Nova_TV, T_Foo, T_Luna, T_game, T_chess, T_fun}

\* matchesStreamer and matchesTag per markup and entry
StreamerMatch ==
  [m \in 1..Len(CardCatalog) |-> [b \in Entries |-> matchesStreamer(CardInfo[m], b)]]

TagMatch ==
  [m \in 1..Len(CardCatalog) |-> [b \in Entries |-> matchesTag(CardInfo[m], b)]]

streamerRule(m, b) == StreamerMatch[m][b]

tagRule(m, b) == TagMatch[m][b]

(***************************************************************************)
(* Bounds                                                                  *)
(***************************************************************************)
MaxCards == 2

MaxTimers == 1

MaxWindowTimers == 2

MaxPendingSet == 2

MaxInbox == 1

CardIds == 1..MaxCards

\* the callers of setTimeout(() => this.applyBlocking(), ...): the observer
\* callback and the scroll/resize/focus listeners
TimerSources == {"observer", "window"}

(***************************************************************************)
(* Visibility controller                                                   *)
(***************************************************************************)
Props == {"display", "visibility", "opacity", "height", "width",
          "position", "left", "top"}

NoStyle == [p \in Props |-> ""]

\* setCardVisibility(card, false): the values written
HiddenStyle ==
  [display |-> "none", visibility |-> "hidden", opacity |-> "0",
   height |-> "0px", width |-> "0px", position |-> "absolute",
   left |-> "-9999px", top |-> "-9999px"]

\* a slot of the document that holds no element
Absent ==
  [status |-> "absent", markup |-> 1, style |-> NoStyle, hidden |-> FALSE,
   processed |-> FALSE, menu |-> FALSE, listeners |-> 0]

removeProperty(style, removed) ==
  [p \in Props |-> IF p \in removed THEN "" ELSE style[p]]

\* setCardVisibility flipping the marker when it hides
setCardVisibilityToggleMarker(card, visible) ==
  IF visible
  THEN [card EXCEPT !.processed = TRUE, !.style = NoStyle, !.hidden = FALSE]
  ELSE [card EXCEPT !.processed = TRUE, !.style = HiddenStyle,
                    !.hidden = ~card.hidden]

\* setCardVisibility removing three of the eight properties when it shows
setCardVisibilityKeepSize(card, visible) ==
  IF visible
  THEN [card EXCEPT !.processed = TRUE,
                    !.style = removeProperty(card.style,
                                             {"display", "visibility", "opacity"}),
                    !.hidden = FALSE]
  ELSE [card EXCEPT !.processed = TRUE,
                    !.style = HiddenStyle,
                    !.hidden = TRUE]

setCardVisibility(card, visible) ==
  IF visible
  THEN [card EXCEPT !.processed = TRUE,
                    !.style = removeProperty(card.style, Props),
                    !.hidden = FALSE]
  ELSE [card EXCEPT !.processed = TRUE,
                    !.style = HiddenStyle,
                    !.hidden = TRUE]

\* showAllStreamCards removing the display property and leaving the marker
showAllStreamCardsKeepMarker(cs) ==
  [c \in CardIds |->
     IF cs[c].status = "attached" /\ cs[c].hidden
     THEN [cs[c] EXCEPT !.style = removeProperty(cs[c].style, {"display"})]
     ELSE cs[c]]

\* document.querySelectorAll('.chzzk-blocker-hidden') and the loop over it
showAllStreamCards(cs) ==
  [c \in CardIds |->
     IF cs[c].status = "attached" /\ cs[c].hidden
     THEN [cs[c] EXCEPT !.style = removeProperty(cs[c].style, {"display"}),
                        !.hidden = FALSE]
     ELSE cs[c]]

(***************************************************************************)
(* Reconciliation pass                                                     *)
(***************************************************************************)
\* document.querySelectorAll(selector): the attached elements it matches,
\* in document order
RECURSIVE querySelectorAll(_, _, _)
querySelectorAll(cs, k, c) ==
  IF c > MaxCards THEN <<>>
  ELSE (IF cs[c].status = "attached" /\ SelectorMatch[cs[c].markup][k]
        THEN <<c>> ELSE <<>>) \o querySelectorAll(cs, k, c + 1)

\* findStreamCards returning the concatenated query results as they are
findStreamCardsNoDedup(cs) ==
  Concat([k \in 1..Len(selectors) |-> querySelectorAll(cs, k, 1)])

\* findStreamCards: cards.push(...foundCards) per selector, then [...new Set(cards)]
findStreamCards(cs) ==
  pushNew(<<>>, Concat([k \in 1..Len(selectors) |-> querySelectorAll(cs, k, 1)]))

Range(seq) == {seq[i] : i \in 1..Len(seq)}

\* shouldHideCard without the tests of the category switches
shouldHideCardNoSwitch(m, S) ==
  \/ /\ Len(S.blockedStreamers) > 0
     /\ \E i \in 1..Len(S.blockedStreamers) : streamerRule(m, S.blockedStreamers[i])
  \/ /\ Len(S.blockedTags) > 0
     /\ \E i \in 1..Len(S.blockedTags) : tagRule(m, S.blockedTags[i])

\* shouldHideCard(card), for a card of markup m
shouldHideCard(m, S) ==
  \/ /\ S.streamerEnabled
     /\ Len(S.blockedStreamers) > 0
     /\ \E i \in 1..Len(S.blockedStreamers) : streamerRule(m, S.blockedStreamers[i])
  \/ /\ S.tagEnabled
     /\ Len(S.blockedTags) > 0
     /\ \E i \in 1..Len(S.blockedTags) : tagRule(m, S.blockedTags[i])

\* applyBlocking leaving alone the cards that carry the processed marker
applyBlockingSkipProcessed(cs, S) ==
  LET totalBlocked == Len(S.blockedStreamers) + Len(S.blockedTags)
  IN  IF ~S.masterEnabled \/ totalBlocked = 0
      THEN showAllStreamCards(cs)
      ELSE LET streamCards == Range(findStreamCards(cs))
           IN  [c \in CardIds |->
                  IF c \in streamCards /\ ~cs[c].processed
                  THEN setCardVisibility(cs[c], ~shouldHideCard(cs[c].markup, S))
                  ELSE cs[c]]

\* applyBlocking under the settings S, on the document cs
applyBlocking(cs, S) ==
  LET totalBlocked == Len(S.blockedStreamers) + Len(S.blockedTags)
  IN  IF ~S.masterEnabled \/ totalBlocked = 0
      THEN showAllStreamCards(cs)
      ELSE LET streamCards == Range(findStreamCards(cs))
           IN  [c \in CardIds |->
                  IF c \in streamCards
                  THEN setCardVisibility(cs[c], ~shouldHideCard(cs[c].markup, S))
                  ELSE cs[c]]

\* addContextMenuToCards adding the listener without testing the marker
addContextMenuToCardsNoTest(cs) ==
  LET streamCards == Range(findStreamCards(cs))
  IN  [c \in CardIds |->
         IF c \in streamCards
         THEN [cs[c] EXCEPT !.menu = TRUE, !.listeners = @ + 1]
         ELSE cs[c]]

\* addContextMenuToCards
addContextMenuToCards(cs) ==
  LET streamCards == Range(findStreamCards(cs))
  IN  [c \in CardIds |->
         IF c \in streamCards /\ ~cs[c].menu
         THEN [cs[c] EXCEPT !.menu = TRUE, !.listeners = @ + 1]
         ELSE cs[c]]

(***************************************************************************)
(* State                                                                   *)
(***************************************************************************)
VARIABLES
  masterEnabled,         \* this.masterEnabled
  streamerEnabled,       \* this.streamerEnabled
  tagEnabled,            \* this.tagEnabled
  blockedStreamers,      \* this.blockedStreamers
  blockedTags,           \* this.blockedTags
  lastRightClickedCard,  \* this.lastRightClickedCard: a card id, 0 for null
  phase,                 \* "loading": init() awaits loadSettings(); "running"
  observer,              \* this.observer: "null", "observing" or "disconnected"
  cards,                 \* the card elements: card id -> element state
  store,                 \* chrome.storage.sync
  pendingSet,            \* handleContextMenuAction frames awaiting storage.set
  applyTimers,           \* pending setTimeout(() => this.applyBlocking()), per caller
  attachTimers,          \* pending setTimeout(() => this.addContextMenuToCards())
  inbox,                 \* 'settingsChanged' messages sent to this tab, not yet delivered
  probe,                 \* the arguments of a call of a matcher
  rule,                  \* the matcher called and what it returned
  scan,                  \* a call of findStreamCards and what it returned
  batch,                 \* the last batch the observer callback handled
  extract,               \* a card handed to extractStreamerInfo and what it returned
  pass                   \* the position of applyBlocking's loop over the cards

vars == <<masterEnabled, streamerEnabled, tagEnabled, blockedStreamers,
          blockedTags, lastRightClickedCard, phase, observer, cards, store, pendingSet,
          applyTimers, attachTimers, inbox, probe, rule, scan, batch, extract, pass>>

probeVars == <<probe, rule, scan, batch, extract, pass>>

settingsVars == <<masterEnabled, streamerEnabled, tagEnabled, blockedStreamers,
                  blockedTags>>

timerVars == <<applyTimers, attachTimers>>

\* the instance's settings as one record
Mem ==
  [masterEnabled |-> masterEnabled, streamerEnabled |-> streamerEnabled,
   tagEnabled |-> tagEnabled, blockedStreamers |-> blockedStreamers,
   blockedTags |-> blockedTags]

\* an optional value: a key of a message or of the store that may be missing
None == <<>>

Some(x) == <<x>>

(***************************************************************************)
(* Inputs                                                                  *)
(***************************************************************************)
\* {action: 'updateBlockSettings', settings}
Settings(m, s, t, bs, bt) ==
  [masterEnabled |-> m, streamerEnabled |-> s, tagEnabled |-> t,
   blockedStreamers |-> bs, blockedTags |-> bt]

SettingsMsgs ==
  { Settings(TRUE, TRUE, TRUE, <<T_Nova>>, <<>>),
    Settings(FALSE, TRUE, TRUE, <<T_Nova>>, <<T_game>>),
    Settings(TRUE, FALSE, TRUE, <<T_Nova>>, <<T_game>>),
    Settings(TRUE, TRUE, FALSE, <<T_Foo, T_Nova, T_Foo>>, <<T_game>>),
    Settings(TRUE, TRUE, TRUE, <<>>, <<>>) }

\* {action: 'updateBlockList', blockedStreamers?, blockedTags?}
ListMsgs ==
  { [blockedStreamers |-> Some(<<>>), blockedTags |-> None],
    [blockedStreamers |-> None, blockedTags |-> Some(<<T_chess>>)],
    [blockedStreamers |-> Some(<<T_Luna>>), blockedTags |-> Some(<<>>)] }

\* what chrome.storage.sync holds when the page loads
InitStores ==
  { [masterBlockEnabled |-> None, streamerBlockEnabled |-> None,
     tagBlockEnabled |-> None, blockedStreamers |-> None, blockedTags |-> None],
    [masterBlockEnabled |-> Some(TRUE), streamerBlockEnabled |-> Some(TRUE),
     tagBlockEnabled |-> Some(TRUE), blockedStreamers |-> Some(<<T_Nova>>),
     blockedTags |-> Some(<<>>)] }

\* writes of the options UI or of another tab
ExternalWrites ==
  { [key |-> "blockedStreamers", value |-> <<T_Luna>>],
    [key |-> "masterBlockEnabled", value |-> FALSE] }

\* arguments of matchesStreamer(streamerInfo, blockedName) and of
\* matchesTag(streamerInfo, blockedTag)
T_abc        == <<"a","b","c">>
T_abc123     == <<"a","b","c","1","2","3">>
T_ABC        == <<"A","B","C">>
T_xyz        == <<"x","y","z">>
T_abc_padded == <<" ","a","b","c"," ">>
T_xyz_title  == <<"m","y"," ","X","Y","Z"," ","s","h","o","w">>
T_Game       == <<"G","a","m","e">>
T_games      == <<"g","a","m","e","s">>
T_game_padded == <<" ","g","a","m","e"," ">>

Info(name, title, tags) == [name |-> name, title |-> title, tags |-> tags]

ProbeNames == {<<>>, T_abc, T_abc123, T_ABC, T_Luna}

ProbeTitles == {<<>>, T_xyz_title, T_chess}

ProbeTags == {<<>>, <<T_games>>, <<T_Game, T_fun>>}

ProbeEntries ==
  {T_abc, T_abc123, T_xyz, T_abc_padded, T_game, T_games, T_game_padded,
   T_chess, T_fun}

\* a call on a record built by hand (markup 0) or on the record of a card
Probes ==
  {[markup |-> 0, record |-> Info(n, t, g), entry |-> b] :
      n \in ProbeNames, t \in ProbeTitles, g \in ProbeTags, b \in ProbeEntries}
  \cup
  {[markup |-> m, record |-> CardInfo[m], entry |-> b] :
      m \in 1..Len(CardCatalog), b \in ProbeEntries}

NoProbe == [markup |-> 0, record |-> Info(<<>>, <<>>, <<>>), entry |-> <<>>]

NoRule == [kind |-> "none", fired |-> FALSE]

\* no batch handled yet
NoBatch == [called |-> FALSE, mutations |-> <<>>]

\* no call of findStreamCards observed yet
NoScan == [called |-> FALSE, unsupported |-> {}, threw |-> FALSE, result |-> <<>>]

\* applyBlocking is not on the stack
NoPass ==
  [stage |-> "idle", todo |-> <<>>, judged |-> {},
   settings |-> [masterEnabled |-> TRUE, streamerEnabled |-> TRUE,
                 tagEnabled |-> TRUE, blockedStreamers |-> <<>>,
                 blockedTags |-> <<>>],
   start |-> [c \in CardIds |-> Absent]]

\* no call of extractStreamerInfo observed yet
NoExtract ==
  [elems |-> <<>>, called |-> FALSE,
   info |-> [name |-> <<>>, title |-> <<>>, tags |-> <<>>]]

(***************************************************************************)
(* Initial state: the constructor has run, init() awaits loadSettings()    *)
(***************************************************************************)
ProgramInit ==
  /\ masterEnabled = TRUE
  /\ streamerEnabled = TRUE
  /\ tagEnabled = TRUE
  /\ blockedStreamers = <<>>
  /\ blockedTags = <<>>
  /\ lastRightClickedCard = 0
  /\ phase = "loading"
  /\ observer = "null"
  /\ cards = [c \in CardIds |-> Absent]
  /\ store \in InitStores
  /\ pendingSet = <<>>
  /\ applyTimers = [src \in TimerSources |-> 0]
  /\ attachTimers = 0
  /\ inbox = 0

Init ==
  /\ ProgramInit
  /\ probe = NoProbe
  /\ rule = NoRule
  /\ scan = NoScan
  /\ batch = NoBatch
  /\ extract = NoExtract
  /\ pass = NoPass

(***************************************************************************)
(* Startup                                                                 *)
(***************************************************************************)
\* loadSettings taking each stored flag by its truthiness
loadSettingsTruthy(data) ==
  [masterEnabled |-> data.masterBlockEnabled = Some(TRUE),
   streamerEnabled |-> data.streamerBlockEnabled = Some(TRUE),
   tagEnabled |-> data.tagBlockEnabled = Some(TRUE),
   blockedStreamers |-> IF data.blockedStreamers = None THEN <<>>
                        ELSE data.blockedStreamers[1],
   blockedTags |-> IF data.blockedTags = None THEN <<>>
                   ELSE data.blockedTags[1]]

\* loadSettings: the values read from data
loadSettings(data) ==
  [masterEnabled |-> data.masterBlockEnabled # Some(FALSE),
   streamerEnabled |-> data.streamerBlockEnabled # Some(FALSE),
   tagEnabled |-> data.tagBlockEnabled # Some(FALSE),
   blockedStreamers |-> IF data.blockedStreamers = None THEN <<>>
                        ELSE data.blockedStreamers[1],
   blockedTags |-> IF data.blockedTags = None THEN <<>>
                   ELSE data.blockedTags[1]]

\* the rest of init(): setupMessageListener, setupContextMenu, startBlocking
StartUp(S) ==
  /\ phase' = "running"
  /\ observer' = "observing"
  /\ lastRightClickedCard' = 0
  /\ cards' = applyBlocking(addContextMenuToCards(cards), S)

\* chrome.storage.sync.get resolves
LoadSettingsResolved ==
  /\ phase = "loading"
  /\ LET S == loadSettings(store)
     IN  /\ masterEnabled' = S.masterEnabled
         /\ streamerEnabled' = S.streamerEnabled
         /\ tagEnabled' = S.tagEnabled
         /\ blockedStreamers' = S.blockedStreamers
         /\ blockedTags' = S.blockedTags
         /\ StartUp(S)
  /\ UNCHANGED <<probeVars, store, pendingSet, timerVars, inbox>>

\* chrome.storage.sync.get rejects and loadSettings lets the error through:
\* init() stops at its await
LoadSettingsRejectedAborts ==
  /\ phase = "loading"
  /\ phase' = "failed"
  /\ UNCHANGED <<probeVars, settingsVars, lastRightClickedCard, observer, cards, store,
                 pendingSet, timerVars, inbox>>

\* chrome.storage.sync.get rejects: caught and logged in loadSettings
LoadSettingsRejected ==
  /\ phase = "loading"
  /\ StartUp(Mem)
  /\ UNCHANGED <<probeVars, settingsVars, store, pendingSet, timerVars, inbox>>

(***************************************************************************)
(* Messages                                                                *)
(***************************************************************************)
\* the updateBlockSettings branch dropping repeated entries of the lists
UpdateBlockSettingsDedup(settings) ==
  /\ phase = "running"
  /\ masterEnabled' = settings.masterEnabled
  /\ streamerEnabled' = settings.streamerEnabled
  /\ tagEnabled' = settings.tagEnabled
  /\ blockedStreamers' = pushNew(<<>>, settings.blockedStreamers)
  /\ blockedTags' = pushNew(<<>>, settings.blockedTags)
  /\ cards' = applyBlocking(cards, settings)
  /\ UNCHANGED <<probeVars, lastRightClickedCard, phase, observer, store, pendingSet,
                 timerVars, inbox>>

UpdateBlockSettings(settings) ==
  /\ phase = "running"
  /\ masterEnabled' = settings.masterEnabled
  /\ streamerEnabled' = settings.streamerEnabled
  /\ tagEnabled' = settings.tagEnabled
  /\ blockedStreamers' = settings.blockedStreamers
  /\ blockedTags' = settings.blockedTags
  /\ cards' = applyBlocking(cards, settings)
  /\ UNCHANGED <<probeVars, lastRightClickedCard, phase, observer, store, pendingSet, timerVars,
                 inbox>>

\* the updateBlockList branch taking an empty carried list for a missing one
UpdateBlockListSkipEmpty(message) ==
  /\ phase = "running"
  /\ blockedStreamers' = IF message.blockedStreamers \notin {None, Some(<<>>)}
                         THEN message.blockedStreamers[1] ELSE blockedStreamers
  /\ blockedTags' = IF message.blockedTags \notin {None, Some(<<>>)}
                    THEN message.blockedTags[1] ELSE blockedTags
  /\ cards' = applyBlocking(cards, [Mem EXCEPT !.blockedStreamers = blockedStreamers',
                                               !.blockedTags = blockedTags'])
  /\ UNCHANGED <<probeVars, masterEnabled, streamerEnabled, tagEnabled,
                 lastRightClickedCard, phase, observer, store, pendingSet, timerVars,
                 inbox>>

UpdateBlockList(message) ==
  /\ phase = "running"
  /\ blockedStreamers' = IF message.blockedStreamers # None
                         THEN message.blockedStreamers[1] ELSE blockedStreamers
  /\ blockedTags' = IF message.blockedTags # None
                    THEN message.blockedTags[1] ELSE blockedTags
  /\ cards' = applyBlocking(cards, [Mem EXCEPT !.blockedStreamers = blockedStreamers',
                                               !.blockedTags = blockedTags'])
  /\ UNCHANGED <<probeVars, masterEnabled, streamerEnabled, tagEnabled,
                 lastRightClickedCard, phase, observer, store, pendingSet, timerVars,
                 inbox>>

\* {action: 'settingsChanged', changes} from the background script: no branch
\* of the listener names this action
DeliverSettingsChanged ==
  /\ inbox > 0
  /\ inbox' = inbox - 1
  /\ UNCHANGED <<probeVars, settingsVars, lastRightClickedCard, phase, observer, cards, store,
                 pendingSet, timerVars>>

(***************************************************************************)
(* Right-click toggle (native context menu)                                *)
(***************************************************************************)
\* cards no handler refers to any more are collected with their state
collect(cs, ref) ==
  [c \in CardIds |->
     IF cs[c].status = "detached" /\ c # ref THEN Absent ELSE cs[c]]

indexOf(arr, x) == Min({i \in 1..Len(arr) : arr[i] = x})

\* arr.splice(index, 1)
splice1(arr, index) == SubSeq(arr, 1, index - 1) \o SubSeq(arr, index + 1, Len(arr))

\* the list update removing every entry equal to the name
toggleRemoveAll(list, name) ==
  IF arrayIncludes(list, name)
  THEN SelectSeq(list, LAMBDA x : x # name)
  ELSE Append(list, name)

\* the list update pushing the name when the first entry is not the name
toggleChecksFirstOnly(list, name) ==
  IF list # <<>> /\ Head(list) = name
  THEN Tail(list)
  ELSE Append(list, name)

\* handleContextMenuAction: the change made to this.blockedStreamers
toggle(list, name) ==
  IF arrayIncludes(list, name)
  THEN splice1(list, indexOf(list, name))
  ELSE IF ~arrayIncludes(list, name) THEN Append(list, name) ELSE list

\* the contextmenu listener blocking the extracted name at once
RightClickBlocks(c) ==
  /\ phase = "running"
  /\ cards[c].status = "attached"
  /\ cards[c].listeners > 0
  /\ cards[c].style.display # "none"
  /\ cards[c].style.visibility # "hidden"
  /\ lastRightClickedCard' = c
  /\ cards' = collect(cards, c)
  /\ blockedStreamers' =
       IF CardInfo[cards[c].markup].name = <<>>
          \/ arrayIncludes(blockedStreamers, CardInfo[cards[c].markup].name)
       THEN blockedStreamers
       ELSE Append(blockedStreamers, CardInfo[cards[c].markup].name)
  /\ UNCHANGED <<probeVars, masterEnabled, streamerEnabled, tagEnabled, blockedTags,
                 phase, observer, store, pendingSet, timerVars, inbox>>

\* the contextmenu listener of card c
RightClick(c) ==
  /\ phase = "running"
  /\ cards[c].status = "attached"
  /\ cards[c].listeners > 0
  /\ cards[c].style.display # "none"
  /\ cards[c].style.visibility # "hidden"
  /\ lastRightClickedCard' = c
  /\ cards' = collect(cards, c)
  /\ UNCHANGED <<probeVars, settingsVars, phase, observer, store, pendingSet, timerVars, inbox>>

\* handleContextMenuAction falling back to the first card with a listener when
\* no card was captured
HandleContextMenuFirstCard ==
  /\ phase = "running"
  /\ LET withListener == {c \in CardIds : cards[c].status = "attached"
                                           /\ cards[c].listeners > 0}
         target == IF lastRightClickedCard # 0 THEN lastRightClickedCard
                   ELSE IF withListener = {} THEN 0 ELSE Min(withListener)
     IN  IF target = 0
         THEN UNCHANGED <<blockedStreamers, pendingSet>>
         ELSE LET streamerInfo == CardInfo[cards[target].markup]
              IN  IF streamerInfo.name = <<>>
                  THEN UNCHANGED <<blockedStreamers, pendingSet>>
                  ELSE /\ Len(pendingSet) < MaxPendingSet
                       /\ blockedStreamers' = toggle(blockedStreamers, streamerInfo.name)
                       /\ pendingSet' = Append(pendingSet,
                            [name |-> streamerInfo.name,
                             isBlocked |-> arrayIncludes(blockedStreamers, streamerInfo.name),
                             value |-> blockedStreamers'])
  /\ UNCHANGED <<probeVars, masterEnabled, streamerEnabled, tagEnabled, blockedTags,
                 lastRightClickedCard, phase, observer, cards, store, timerVars, inbox>>

\* {action: 'handleContextMenu'}: handleContextMenuAction up to its await
HandleContextMenu ==
  /\ phase = "running"
  /\ IF lastRightClickedCard = 0
     THEN UNCHANGED <<blockedStreamers, pendingSet>>
     ELSE LET streamerInfo == CardInfo[cards[lastRightClickedCard].markup]
          IN  IF streamerInfo.name = <<>>
              THEN UNCHANGED <<blockedStreamers, pendingSet>>
              ELSE /\ Len(pendingSet) < MaxPendingSet
                   /\ blockedStreamers' = toggle(blockedStreamers, streamerInfo.name)
                   /\ pendingSet' = Append(pendingSet,
                        [name |-> streamerInfo.name,
                         isBlocked |-> arrayIncludes(blockedStreamers, streamerInfo.name),
                         value |-> blockedStreamers'])
  /\ UNCHANGED <<probeVars, masterEnabled, streamerEnabled, tagEnabled, blockedTags,
                 lastRightClickedCard, phase, observer, cards, store, timerVars, inbox>>

\* a resolved write after which the handler runs no pass
SetResolvedNoPass ==
  /\ pendingSet # <<>>
  /\ LET frame == Head(pendingSet)
         changed == store.blockedStreamers # Some(frame.value)
     IN  /\ changed => inbox < MaxInbox
         /\ store' = [store EXCEPT !.blockedStreamers = Some(frame.value)]
         /\ inbox' = IF changed THEN inbox + 1 ELSE inbox
  /\ pendingSet' = Tail(pendingSet)
  /\ cards' = collect(cards, 0)
  /\ lastRightClickedCard' = 0
  /\ UNCHANGED <<probeVars, settingsVars, phase, observer, timerVars>>

\* chrome.storage.sync.set resolves: the store holds the list, the background
\* script's onChanged listener messages the tab, the handler goes on
SetResolved ==
  /\ pendingSet # <<>>
  /\ LET frame == Head(pendingSet)
         changed == store.blockedStreamers # Some(frame.value)
     IN  /\ changed => inbox < MaxInbox
         /\ store' = [store EXCEPT !.blockedStreamers = Some(frame.value)]
         /\ inbox' = IF changed THEN inbox + 1 ELSE inbox
  /\ pendingSet' = Tail(pendingSet)
  /\ cards' = collect(applyBlocking(cards, Mem), 0)
  /\ lastRightClickedCard' = 0
  /\ UNCHANGED <<probeVars, settingsVars, phase, observer, timerVars>>

\* a rejected write whose catch leaves the handler with the target captured
SetRejectedKeepsTarget ==
  /\ pendingSet # <<>>
  /\ pendingSet' = Tail(pendingSet)
  /\ cards' = collect(cards, lastRightClickedCard)
  /\ UNCHANGED <<probeVars, settingsVars, lastRightClickedCard, phase, observer, store,
                 timerVars, inbox>>

\* a rejected write that puts this.blockedStreamers back to the stored list
SetRejectedRollback ==
  /\ pendingSet # <<>>
  /\ pendingSet' = Tail(pendingSet)
  /\ blockedStreamers' = IF store.blockedStreamers = None THEN <<>>
                         ELSE store.blockedStreamers[1]
  /\ cards' = collect(cards, 0)
  /\ lastRightClickedCard' = 0
  /\ UNCHANGED <<probeVars, masterEnabled, streamerEnabled, tagEnabled, blockedTags,
                 phase, observer, store, timerVars, inbox>>

\* chrome.storage.sync.set rejects: caught and logged
SetRejected ==
  /\ pendingSet # <<>>
  /\ pendingSet' = Tail(pendingSet)
  /\ cards' = collect(cards, 0)
  /\ lastRightClickedCard' = 0
  /\ UNCHANGED <<probeVars, settingsVars, phase, observer, store, timerVars, inbox>>

(***************************************************************************)
(* Timers and window events                                                *)
(***************************************************************************)
Gate == masterEnabled /\ Len(blockedStreamers) + Len(blockedTags) > 0

\* the setInterval callback
IntervalTick ==
  /\ phase = "running"
  /\ cards' = addContextMenuToCards(IF Gate THEN applyBlocking(cards, Mem) ELSE cards)
  /\ UNCHANGED <<probeVars, settingsVars, lastRightClickedCard, phase, observer, store, pendingSet,
                 timerVars, inbox>>

\* a scroll, resize or focus event
WindowEvent ==
  /\ phase = "running"
  /\ IF Gate
     THEN /\ applyTimers["window"] < MaxWindowTimers
          /\ applyTimers' = [applyTimers EXCEPT !["window"] = @ + 1]
     ELSE UNCHANGED applyTimers
  /\ UNCHANGED <<probeVars, settingsVars, lastRightClickedCard, phase, observer, cards, store,
                 pendingSet, attachTimers, inbox>>

\* an expiring timeout that cancels the other pending timeouts of its caller
ApplyTimerFiresClearsOthers ==
  /\ \E src \in TimerSources :
        /\ applyTimers[src] > 0
        /\ applyTimers' = [applyTimers EXCEPT ![src] = 0]
  /\ cards' = applyBlocking(cards, Mem)
  /\ UNCHANGED <<probeVars, settingsVars, lastRightClickedCard, phase, observer, store,
                 pendingSet, attachTimers, inbox>>

\* a setTimeout(() => this.applyBlocking(), ...) expires
ApplyTimerFires ==
  /\ \E src \in TimerSources :
        /\ applyTimers[src] > 0
        /\ applyTimers' = [applyTimers EXCEPT ![src] = @ - 1]
  /\ cards' = applyBlocking(cards, Mem)
  /\ UNCHANGED <<probeVars, settingsVars, lastRightClickedCard, phase, observer, store, pendingSet,
                 attachTimers, inbox>>

\* a setTimeout(() => this.addContextMenuToCards(), 100) expires
AttachTimerFires ==
  /\ attachTimers > 0
  /\ attachTimers' = attachTimers - 1
  /\ cards' = addContextMenuToCards(cards)
  /\ UNCHANGED <<probeVars, settingsVars, lastRightClickedCard, phase, observer, store, pendingSet,
                 applyTimers, inbox>>

(***************************************************************************)
(* The page and the other writers of the store                             *)
(***************************************************************************)
\* the MutationObserver callback: const streamCardSelectors = [...]
streamCardSelectors ==
  << Sel("", C_nav_item_hash, <<>>),
     Sel("", C_video_hash, <<>>),
     Sel("", <<>>, S_video_card),
     Sel("", <<>>, S_nav_item),
     Sel("", <<>>, S_live_card),
     Sel("", <<>>, S_stream_card),
     Sel("", <<>>, S_card),
     Sel("", <<>>, S_item) >>

\* isStreamCard testing the added node alone
isStreamCardSelfOnly(markup) ==
  \E k \in 1..Len(streamCardSelectors) :
     matchesSelector(markup, streamCardSelectors[k])

\* node.matches?.(selector) || node.querySelector?.(selector), for some selector
isStreamCard(markup) ==
  \E k \in 1..Len(streamCardSelectors) :
     \/ matchesSelector(markup, streamCardSelectors[k])
     \/ \E i \in 1..Len(markup.elems) :
           matchesSelector([tag |-> "span", classes |-> markup.elems[i].classes],
                           streamCardSelectors[k])

\* the page appends an element; the observer, while observing, sees the batch
InsertCard(c, m) ==
  /\ cards[c].status = "absent"
  /\ \A d \in CardIds : d < c => cards[d].status # "absent"
  /\ cards' = [cards EXCEPT ![c] = [Absent EXCEPT !.status = "attached",
                                                  !.markup = m,
                                                  !.style.display = CardCatalog[m].style]]
  /\ IF observer = "observing" /\ isStreamCard(CardCatalog[m])
     THEN /\ applyTimers["observer"] < MaxTimers
          /\ attachTimers < MaxTimers
          /\ applyTimers' = [applyTimers EXCEPT !["observer"] = @ + 1]
          /\ attachTimers' = attachTimers + 1
     ELSE UNCHANGED timerVars
  /\ UNCHANGED <<probeVars, settingsVars, lastRightClickedCard, phase, observer, store, pendingSet,
                 inbox>>

\* this.observer.disconnect(): the observer stops delivering batches; the
\* interval, the window listeners and the pending timeouts have no handle
DisconnectObserver ==
  /\ observer = "observing"
  /\ observer' = "disconnected"
  /\ UNCHANGED <<probeVars, settingsVars, lastRightClickedCard, phase, cards, store,
                 pendingSet, timerVars, inbox>>

\* the page removes an element
RemoveCard(c) ==
  /\ cards[c].status = "attached"
  /\ cards' = collect([cards EXCEPT ![c].status = "detached"], lastRightClickedCard)
  /\ UNCHANGED <<probeVars, settingsVars, lastRightClickedCard, phase, observer, store, pendingSet,
                 timerVars, inbox>>

\* the options UI or another tab writes the store; chrome.storage.onChanged
\* fires in the background script, which messages every chzzk tab
ExternalStoreWrite(w) ==
  /\ inbox < MaxInbox
  /\ store[w.key] # Some(w.value)
  /\ store' = [store EXCEPT ![w.key] = Some(w.value)]
  /\ inbox' = inbox + 1
  /\ UNCHANGED <<probeVars, settingsVars, lastRightClickedCard, phase, observer, cards, pendingSet,
                 timerVars>>

(***************************************************************************)
(* Specifications                                                          *)
(***************************************************************************)
\* the reconciliation engine: startup, settings messages, timers, window
\* events and the page changing the document
Next ==
  \/ LoadSettingsResolved
  \/ LoadSettingsRejected
  \/ \E settings \in SettingsMsgs : UpdateBlockSettings(settings)
  \/ \E message \in ListMsgs : UpdateBlockList(message)
  \/ IntervalTick
  \/ WindowEvent
  \/ ApplyTimerFires
  \/ AttachTimerFires
  \/ \E c \in CardIds, m \in StreamCardMarkups : InsertCard(c, m)
  \/ \E c \in CardIds : RemoveCard(c)

Spec == Init /\ [][Next]_vars

\* detaching the observer: startup, a settings message, the triggers of a
\* pass and the detachment
NextCancel ==
  \/ LoadSettingsResolved
  \/ LoadSettingsRejected
  \/ \E settings \in SettingsMsgs : UpdateBlockSettings(settings)
  \/ IntervalTick
  \/ WindowEvent
  \/ ApplyTimerFires
  \/ AttachTimerFires
  \/ \E c \in CardIds, m \in StreamCardMarkups : InsertCard(c, m)
  \/ DisconnectObserver

SpecCancel == Init /\ [][NextCancel]_vars

\* the synchronization loop under the fairness of its scheduling: the storage
\* read settles and a pending timeout expires
LoadSettles == phase = "loading" /\ phase' = "running"

ApplyTimerExpires ==
  \E src \in TimerSources :
     /\ applyTimers[src] > 0
     /\ applyTimers' = [applyTimers EXCEPT ![src] = @ - 1]

AttachTimerExpires == attachTimers > 0 /\ attachTimers' = attachTimers - 1

NextLive ==
  \/ LoadSettingsResolved
  \/ LoadSettingsRejected
  \/ \E settings \in SettingsMsgs : UpdateBlockSettings(settings)
  \/ IntervalTick
  \/ WindowEvent
  \/ ApplyTimerFires
  \/ AttachTimerFires
  \/ \E c \in CardIds, m \in StreamCardMarkups : InsertCard(c, m)
  \/ \E c \in CardIds : RemoveCard(c)

SpecLive ==
  /\ Init
  /\ [][NextLive]_vars
  /\ WF_phase(LoadSettles)
  /\ WF_applyTimers(ApplyTimerExpires)
  /\ WF_attachTimers(AttachTimerExpires)

\* the right-click toggle and the store: startup, a settings message, the
\* page inserting cards, the periodic check, the toggle with its pending
\* writes, writes by others and their notifications
ToggleSettingsMsgs ==
  { Settings(TRUE, TRUE, FALSE, <<T_Foo, T_Nova, T_Foo>>, <<T_game>>) }

ToggleCards == {m \in 1..Len(CardCatalog) : CardCatalog[m] \in {AnonCard, FooCard}}

NextToggle ==
  \/ LoadSettingsResolved
  \/ LoadSettingsRejected
  \/ \E settings \in ToggleSettingsMsgs : UpdateBlockSettings(settings)
  \/ IntervalTick
  \/ \E c \in CardIds, m \in ToggleCards : InsertCard(c, m)
  \/ \E c \in CardIds : RightClick(c)
  \/ HandleContextMenu
  \/ SetResolved
  \/ SetRejected
  \/ \E w \in ExternalWrites : ExternalStoreWrite(w)
  \/ DeliverSettingsChanged

SpecToggle == Init /\ [][NextToggle]_vars

(***************************************************************************)
(* Properties of the reconciliation engine, under Spec                     *)
(***************************************************************************)
\* a step in which applyBlocking runs
ApplyBlockingRuns ==
  \/ LoadSettingsResolved
  \/ LoadSettingsRejected
  \/ \E settings \in SettingsMsgs : UpdateBlockSettings(settings)
  \/ \E message \in ListMsgs : UpdateBlockList(message)
  \/ ApplyTimerFires
  \/ IntervalTick /\ Gate
  \/ SetResolved

Attached(cs) == {c \in CardIds : cs[c].status = "attached"}

\* the card shows no trace of having been hidden
Unsuppressed(card) ==
  /\ ~card.hidden
  /\ \A p \in Props : card.style[p] # HiddenStyle[p]

\* C1: once applyBlocking has run with masterEnabled false or with both
\* blocklists empty, every card carries neither the hidden marker nor any of
\* the suppression properties that hiding set, and no card is hidden
C1_DisableInvariant ==
  [][(ApplyBlockingRuns /\ ~Gate')
       => \A c \in Attached(cards') : Unsuppressed(cards'[c])]_vars

\* C2: a card whose extracted record has an empty name, an empty title and
\* no tags is never hidden, whatever the settings
C2_ExtractionMissAllowed ==
  \A c \in Attached(cards) :
     CardInfo[cards[c].markup] = Info(<<>>, <<>>, <<>>) => ~cards[c].hidden

\* the decision of section "overall", written on the rules of the two
\* categories
HideRule(m, S) ==
  \/ /\ S.streamerEnabled
     /\ S.blockedStreamers # <<>>
     /\ \E b \in Range(S.blockedStreamers) : streamerRule(m, b)
  \/ /\ S.tagEnabled
     /\ S.blockedTags # <<>>
     /\ \E b \in Range(S.blockedTags) : tagRule(m, b)

\* C3: after applyBlocking has run with master on and a non-empty combined
\* blocklist, each discovered card is hidden if and only if a category whose
\* switch is on has a non-empty list with an entry whose rule fires; with
\* blockedStreamers = ["Nova"] and the streamer switch on, a card named
\* "Nova_TV" ends hidden and, no tag being blocked, a card named "Luna"
\* ends visible
C3_HiddenIffRuleFires ==
  [][(ApplyBlockingRuns /\ Gate')
       => \A c \in Range(findStreamCards(cards')) :
            LET m == cards'[c].markup
            IN  /\ cards'[c].hidden <=> HideRule(m, Mem')
                /\ cards'[c].hidden => cards'[c].style = HiddenStyle
                /\ ~cards'[c].hidden => cards'[c].style = NoStyle
                /\ (blockedStreamers' = <<T_Nova>> /\ streamerEnabled')
                     => /\ CardInfo[m].name = T_Nova_TV => cards'[c].hidden
                        /\ (CardInfo[m].name = T_Luna /\ blockedTags' = <<>>)
                             => ~cards'[c].hidden]_vars

\* "Nova_TV" is hidden and "Luna" has been processed and is visible
C3_Witness ==
  /\ masterEnabled /\ streamerEnabled
  /\ blockedStreamers = <<T_Nova>>
  /\ \E c, d \in Attached(cards) :
        /\ CardInfo[cards[c].markup].name = T_Nova_TV
        /\ cards[c].hidden
        /\ CardInfo[cards[d].markup].name = T_Luna
        /\ cards[d].processed
        /\ ~cards[d].hidden

\* C6: for every document and settings state, a second applyBlocking on the
\* unchanged document and settings leaves every card's hidden marker and
\* suppression properties as the first left them
C6_PassIdempotent ==
  \A S \in SettingsMsgs \cup {Mem} :
     LET once == applyBlocking(cards, S)
         twice == applyBlocking(once, S)
     IN  \A c \in CardIds : /\ twice[c].hidden = once[c].hidden
                            /\ twice[c].style = once[c].style

\* a state in which the first pass hides a card that is visible
C6_Witness ==
  /\ Gate
  /\ \E c \in Attached(cards) :
        /\ ~cards[c].hidden
        /\ applyBlocking(cards, Mem)[c].hidden
        /\ applyBlocking(applyBlocking(cards, Mem), Mem)[c].hidden

\* C7, as the specification states it: hiding sets all suppression
\* properties and the marker, a following show clears them and restores the
\* card's visual state of before the hide
C7_RoundTripAsStated ==
  \A c \in Attached(cards) :
     LET h == setCardVisibility(cards[c], FALSE)
         v == setCardVisibility(h, TRUE)
     IN  ~cards[c].hidden => /\ v.style = cards[c].style
                             /\ v.hidden = cards[c].hidden

\* C7, amended: hiding sets all suppression properties and the marker; a
\* following show clears exactly those properties and removes the marker,
\* which restores the visual state of before the hide when the card carried
\* none of these properties inline then; applying the same visibility twice
\* gives the same card state as applying it once
C7_RoundTrip ==
  \A c \in Attached(cards) :
     LET card == cards[c]
         h == setCardVisibility(card, FALSE)
         v == setCardVisibility(h, TRUE)
         w == setCardVisibility(card, TRUE)
     IN  /\ h.style = HiddenStyle /\ h.hidden
         /\ v.style = NoStyle /\ ~v.hidden
         /\ [v EXCEPT !.style = card.style, !.hidden = card.hidden,
                      !.processed = card.processed] = card
         /\ (card.style = NoStyle /\ ~card.hidden)
              => (v.style = card.style /\ v.hidden = card.hidden)
         /\ setCardVisibility(h, FALSE) = h
         /\ setCardVisibility(v, TRUE) = v
         /\ setCardVisibility(w, TRUE) = w

\* a hidden card, and a visible card that carries an inline property
C7_Witness ==
  \E c, d \in Attached(cards) :
     /\ cards[c].hidden /\ cards[c].style = HiddenStyle
     /\ ~cards[d].hidden /\ cards[d].style # NoStyle

\* the matcher's decision for a card of markup m under the settings S
Decision(m, S) ==
  /\ S.masterEnabled
  /\ Len(S.blockedStreamers) + Len(S.blockedTags) > 0
  /\ HideRule(m, S)

\* the card carries none of the values hiding writes
Shown(card) == \A p \in Props : card.style[p] # HiddenStyle[p]

\* no setTimeout callback and no storage write is pending
NoTimerPending ==
  /\ \A src \in TimerSources : applyTimers[src] = 0
  /\ attachTimers = 0
  /\ pendingSet = <<>>

\* C11: a pass that runs after a settings update computes visibility from the
\* flags and lists the instance then holds, and once every pending timer has
\* fired each card of the document is suppressed exactly when the matcher
\* decides so under those settings
C11_LastSnapshotWins ==
  [][/\ (ApplyBlockingRuns /\ Gate')
          => \A c \in Range(findStreamCards(cards')) :
                cards'[c].hidden <=> HideRule(cards'[c].markup, Mem')
     /\ (phase' = "running" /\ NoTimerPending')
          => \A c \in Attached(cards') :
                Shown(cards'[c]) <=> ~Decision(cards'[c].markup, Mem')]_vars

\* C12: for each source of debounced passes at most one timer is pending at
\* any time, a new trigger replacing the pending one
C12_DebounceReplaces == \A src \in TimerSources : applyTimers[src] <= 1

\* the timer of a scroll, resize or focus event expires and its pass starts
WindowTimerFires == applyTimers'["window"] < applyTimers["window"]

\* the setInterval callback runs and changes the visibility state of a card
TickChangesCards ==
  /\ IntervalTick
  /\ \E c \in CardIds : \/ cards'[c].style # cards[c].style
                         \/ cards'[c].hidden # cards[c].hidden
                         \/ cards'[c].processed # cards[c].processed

\* C13: a pass started by the periodic tick or by a scroll, resize or focus
\* event starts only when, at that moment, the master switch is on and the
\* combined blocklist is non-empty
C13_TriggerGating ==
  [][(WindowTimerFires \/ TickChangesCards) => Gate]_vars

\* applyBlocking has run on the document with the settings S: the cards it
\* discovers carry the marker exactly when S decides so, and none does when S
\* disables blocking
PassRanWith(cs, S) ==
  IF S.masterEnabled /\ Len(S.blockedStreamers) + Len(S.blockedTags) > 0
  THEN \A c \in Range(findStreamCards(cs)) :
          /\ cs[c].processed
          /\ cs[c].hidden <=> HideRule(cs[c].markup, S)
  ELSE \A c \in Attached(cs) : ~cs[c].hidden

\* C14: when an updateBlockSettings message has been handled, the three flags
\* and the two lists equal the message's values, order and repeated entries
\* included, and a pass has run with them whatever the flags are
C14_FullSettingsReplace ==
  [][\A settings \in SettingsMsgs :
        UpdateBlockSettings(settings)
          => /\ masterEnabled' = settings.masterEnabled
             /\ streamerEnabled' = settings.streamerEnabled
             /\ tagEnabled' = settings.tagEnabled
             /\ blockedStreamers' = settings.blockedStreamers
             /\ blockedTags' = settings.blockedTags
             /\ PassRanWith(cards', settings)]_vars

\* the message with a repeated entry has been handled and has hidden "Foo"
C14_Witness ==
  /\ masterEnabled /\ streamerEnabled /\ ~tagEnabled
  /\ blockedStreamers = <<T_Foo, T_Nova, T_Foo>>
  /\ blockedTags = <<T_game>>
  /\ \E c \in Attached(cards) :
        CardInfo[cards[c].markup].name = T_Foo /\ cards[c].hidden

\* C15: an updateBlockList message replaces exactly the lists it carries, an
\* empty carried list included, leaves a list it does not carry and the three
\* flags unchanged, and then a pass runs
C15_PartialListReplace ==
  [][\A message \in ListMsgs :
        UpdateBlockList(message)
          => /\ \/ message.blockedStreamers = None /\ UNCHANGED blockedStreamers
                \/ message.blockedStreamers = Some(blockedStreamers')
             /\ \/ message.blockedTags = None /\ UNCHANGED blockedTags
                \/ message.blockedTags = Some(blockedTags')
             /\ UNCHANGED <<masterEnabled, streamerEnabled, tagEnabled>>
             /\ PassRanWith(cards', Mem')]_vars

\* a message that carried an empty blockedStreamers and no blockedTags has
\* been handled
C15_Witness ==
  /\ phase = "running"
  /\ blockedStreamers = <<>>
  /\ blockedTags = <<T_game>>

\* a step in which addContextMenuToCards runs
AttachPassRuns ==
  \/ LoadSettingsResolved
  \/ LoadSettingsRejected
  \/ IntervalTick
  \/ AttachTimerFires

\* C28: whatever triggers start attach passes, no card ever carries more than
\* one contextmenu listener, a card carries the listener exactly when it
\* carries the marker, and after an attach pass every discovered card carries
\* the marker
C28_OneHandlerPerCard ==
  [][/\ \A c \in CardIds :
          /\ cards'[c].listeners <= 1
          /\ cards'[c].menu <=> cards'[c].listeners = 1
     /\ AttachPassRuns
          => \A c \in Range(findStreamCards(cards')) : cards'[c].menu]_vars

\* two cards, one of them hidden, each carry one listener, no attach pass
\* pending
C28_Witness ==
  /\ phase = "running"
  /\ attachTimers = 0
  /\ \A c \in CardIds :
        cards[c].status = "attached" /\ cards[c].menu /\ cards[c].listeners = 1
  /\ \E c \in CardIds : cards[c].hidden
  /\ \E c \in CardIds : ~cards[c].hidden /\ cards[c].processed

\* C31: a card that carries the hidden marker carries every suppression
\* property with the value hiding writes, and no step takes one of these
\* properties from a card that keeps the marker
C31_MarkerImpliesSuppression ==
  /\ \A c \in CardIds :
        cards[c].hidden => \A p \in Props : cards[c].style[p] = HiddenStyle[p]
  /\ [][\A c \in CardIds :
          (cards[c].hidden /\ cards'[c].hidden /\ cards'[c].status = cards[c].status)
            => cards'[c].style = cards[c].style]_vars

\* the disabled branch has shown a hidden card again: it took the display
\* property and the marker together and left the other properties
C31_Witness ==
  /\ ~masterEnabled
  /\ \E c \in CardIds :
        /\ cards[c].status = "attached"
        /\ ~cards[c].hidden
        /\ cards[c].style = removeProperty(HiddenStyle, {"display"})

\* this.observer.observe(document.body, ...) with attributes observed too
observeOptionsWithAttributes ==
  [childList |-> TRUE, subtree |-> TRUE, attributes |-> TRUE]

\* this.observer.observe(document.body, {childList: true, subtree: true})
observeOptions ==
  [childList |-> TRUE, subtree |-> TRUE, attributes |-> FALSE]

\* the cards for which the change of the document from before to after
\* queues a mutation record for the observer
MutationsQueued(before, after) ==
  {c \in CardIds :
     \/ /\ observeOptions.childList
        /\ (before[c].status = "attached") # (after[c].status = "attached")
     \/ /\ observeOptions.attributes
        /\ before[c].status = "attached"
        /\ after[c].status = "attached"
        /\ \/ after[c].style # before[c].style
           \/ after[c].hidden # before[c].hidden
           \/ after[c].processed # before[c].processed
           \/ after[c].menu # before[c].menu}

\* a step in which a pass runs changes attributes of cards only: no card is
\* inserted or removed, no record is queued for the observer, no timer is
\* scheduled
PassChangesAttributesOnly ==
  \/ /\ Attached(cards') = Attached(cards)
     /\ \A c \in Attached(cards) : cards'[c].markup = cards[c].markup
     /\ MutationsQueued(cards, cards') = {}
     /\ \A src \in TimerSources : applyTimers'[src] <= applyTimers[src]
     /\ attachTimers' <= attachTimers
  \/ ~(ApplyBlockingRuns \/ AttachPassRuns)

\* C33 as stated: a pass changes attributes only and schedules nothing, and
\* once no timer is pending the periodic tick changes no card
C33_NoSelfTriggerAsStated ==
  [][/\ PassChangesAttributesOnly
     /\ (NoTimerPending /\ IntervalTick) => cards' = cards]_vars

\* C33: a pass changes attributes only and schedules nothing, and a periodic
\* tick that follows a periodic tick with nothing in between changes no card
C33_NoSelfTrigger ==
  [][/\ PassChangesAttributesOnly
     /\ (UNCHANGED <<settingsVars, timerVars, pendingSet, phase>> /\ IntervalTick) =>
          addContextMenuToCards(IF Gate' THEN applyBlocking(cards', Mem') ELSE cards')
            = cards']_vars

\* the write of a toggle was rejected and the periodic tick has hidden the
\* card of the name the toggle added
C33_Witness ==
  /\ phase = "running"
  /\ pendingSet = <<>>
  /\ lastRightClickedCard = 0
  /\ blockedStreamers = <<T_Foo>>
  /\ store.blockedStreamers # Some(<<T_Foo>>)
  /\ \E c \in CardIds :
        /\ cards[c].status = "attached"
        /\ CardCatalog[cards[c].markup] = FooCard
        /\ cards[c].hidden
        /\ cards[c].menu

\* C37: while the settings read is pending no message is handled and no pass
\* runs: the flags and lists are the constructor's, no observer, timer or
\* write exists and no card carries a marker of this system; when the read
\* settles, the flags and lists are those read, or the constructor's when the
\* read failed, the instance is running with its observer installed, every
\* discovered card has its handler and the first pass has run with these
\* settings; after a failed read no card is hidden
C37_StartupOrder ==
  /\ phase = "loading" =>
        /\ masterEnabled /\ streamerEnabled /\ tagEnabled
        /\ blockedStreamers = <<>> /\ blockedTags = <<>>
        /\ observer = "null"
        /\ NoTimerPending
        /\ lastRightClickedCard = 0
        /\ \A c \in CardIds :
              ~cards[c].hidden /\ ~cards[c].processed /\ ~cards[c].menu
  /\ [][(phase = "loading" /\ phase' # "loading") =>
          /\ phase' = "running"
          /\ observer' = "observing"
          /\ Mem' = loadSettings(store) \/ UNCHANGED settingsVars
          /\ PassRanWith(cards', Mem')
          /\ \A c \in Range(findStreamCards(cards')) : cards'[c].menu
          /\ UNCHANGED settingsVars =>
               /\ masterEnabled' /\ streamerEnabled' /\ tagEnabled'
               /\ blockedStreamers' = <<>> /\ blockedTags' = <<>>
               /\ \A c \in CardIds : ~cards'[c].hidden /\ Shown(cards'[c])]_vars

\* the read failed on a store that holds a blocklist: the instance runs with
\* empty lists and the card the stored list names is shown, with its handler
C37_Witness ==
  /\ phase = "running"
  /\ observer = "observing"
  /\ store.blockedStreamers = Some(<<T_Nova>>)
  /\ blockedStreamers = <<>> /\ blockedTags = <<>>
  /\ masterEnabled /\ streamerEnabled /\ tagEnabled
  /\ \E c \in Attached(cards) :
        /\ CardCatalog[cards[c].markup] = NovaCard
        /\ ~cards[c].hidden
        /\ ~cards[c].processed
        /\ cards[c].menu

(***************************************************************************)
(* Properties of the toggle and of the store, under SpecToggle             *)
(***************************************************************************)
Count(list, x) == Cardinality({i \in 1..Len(list) : list[i] = x})

\* a step in which handleContextMenuAction changes the list and starts a write
ToggleInvoked == Len(pendingSet') = Len(pendingSet) + 1

\* the name the toggle resolves for the card last right-clicked
ResolvedName == CardInfo[cards[lastRightClickedCard].markup].name

\* C8: when the toggle is invoked on an unblocked card and invoked again
\* while the write of the first invocation is still pending, the list not
\* having changed in between, blockedStreamers ends holding the card's name
\* exactly once
C8_DoubleInvocationAddsOnce ==
  [][(/\ ToggleInvoked
      /\ pendingSet # <<>>
      /\ LET first == pendingSet[Len(pendingSet)]
         IN  /\ ~first.isBlocked
             /\ first.name = ResolvedName
             /\ first.value = blockedStreamers)
       => Count(blockedStreamers', ResolvedName) = 1]_vars

\* C9: the toggle invoked on a card whose resolved name is a member of
\* blockedStreamers removes exactly one entry equal to that name and leaves
\* every other entry, and their order, unchanged
C9_ToggleRemovesOne ==
  [][(/\ ToggleInvoked
      /\ ResolvedName \in Range(blockedStreamers))
       => /\ Len(blockedStreamers') = Len(blockedStreamers) - 1
          /\ \E i \in 1..Len(blockedStreamers) :
                /\ blockedStreamers[i] = ResolvedName
                /\ \A j \in 1..Len(blockedStreamers') :
                      blockedStreamers'[j] =
                        IF j < i THEN blockedStreamers[j] ELSE blockedStreamers[j + 1]]_vars

\* "Foo" has been removed from a list that held it twice
C9_Witness ==
  /\ pendingSet # <<>>
  /\ pendingSet[Len(pendingSet)].isBlocked
  /\ pendingSet[Len(pendingSet)].name = T_Foo
  /\ pendingSet[Len(pendingSet)].value = <<T_Nova, T_Foo>>
  /\ blockedStreamers = <<T_Nova, T_Foo>>

\* C10: when the notification of a change of the store reaches a running
\* instance, the instance holds flags and lists equal to the stored values
\* and has run applyBlocking with them
C10_ExternalChangeReseeds ==
  [][(phase = "running" /\ inbox' < inbox)
       => /\ Mem' = loadSettings(store')
          /\ cards' = applyBlocking(cards, Mem')]_vars

\* the value loadSettings must give a flag stored as v, and a list stored as v
FlagDefault(v) == IF v = None THEN TRUE ELSE v[1] # FALSE

ListDefault(v) == IF v = None THEN <<>> ELSE v[1]

\* C16: after loadSettings has read the store, each enable flag is true
\* unless its stored value is false, a missing one counting as true, and each
\* list is the stored list, or empty when missing
C16_LoadDefaults ==
  [][LoadSettingsResolved
       => /\ masterEnabled' = FlagDefault(store.masterBlockEnabled)
          /\ streamerEnabled' = FlagDefault(store.streamerBlockEnabled)
          /\ tagEnabled' = FlagDefault(store.tagBlockEnabled)
          /\ blockedStreamers' = ListDefault(store.blockedStreamers)
          /\ blockedTags' = ListDefault(store.blockedTags)]_vars

\* the store held masterBlockEnabled = false and no other key when it was read
C16_Witness ==
  /\ phase = "running"
  /\ store.masterBlockEnabled = Some(FALSE)
  /\ store.streamerBlockEnabled = None
  /\ store.blockedStreamers = None
  /\ ~masterEnabled /\ streamerEnabled /\ tagEnabled
  /\ blockedStreamers = <<>>

\* C17: when the storage write of a toggle fails, the list in memory is left
\* as the toggle made it, the store is as it was, the instance keeps running,
\* and a later periodic pass hides exactly the cards the rule selects under
\* the settings in memory
C17_WriteFailureKeepsChange ==
  [][/\ SetRejected
          => /\ UNCHANGED <<settingsVars, store>>
             /\ phase' = "running"
     /\ (IntervalTick /\ Gate')
          => \A c \in Range(findStreamCards(cards')) :
                cards'[c].hidden <=> HideRule(cards'[c].markup, Mem')]_vars

\* the write of the toggle that added Foo failed, and a later pass has hidden
\* Foo's card by the list in memory
C17_Witness ==
  /\ phase = "running"
  /\ pendingSet = <<>>
  /\ store.blockedStreamers = None
  /\ blockedStreamers = <<T_Foo>>
  /\ \E c \in Attached(cards) :
        CardInfo[cards[c].markup].name = T_Foo /\ cards[c].hidden

\* C18: handleContextMenu arriving while no card is captured changes nothing:
\* the settings in memory, the store and every card stay as they were and no
\* storage write is issued
C18_NoTargetNoOp ==
  [][(HandleContextMenu /\ lastRightClickedCard = 0)
       => UNCHANGED <<settingsVars, store, cards, pendingSet, lastRightClickedCard>>]_vars

\* no card is captured while a visible card with a listener and a name is on
\* the page and no write is pending
C18_Witness ==
  /\ phase = "running"
  /\ lastRightClickedCard = 0
  /\ pendingSet = <<>>
  /\ blockedStreamers = <<T_Nova>>
  /\ \E c \in Attached(cards) :
        /\ cards[c].listeners > 0
        /\ ~cards[c].hidden
        /\ CardInfo[cards[c].markup].name = T_Foo

\* C19: the instance never has more than one storage call pending
C19_OneCallInFlight == Len(pendingSet) <= 1

\* a step in which a toggle's handler returns
ToggleCompletes == Len(pendingSet') < Len(pendingSet)

\* the first two steps of a toggle: the list in memory changes and the write
\* of the whole changed list is issued, the store and the cards untouched
ChangesThenWrites ==
  ToggleInvoked
    => /\ blockedStreamers' # blockedStreamers
       /\ pendingSet'[Len(pendingSet')].value = blockedStreamers'
       /\ store' = store
       /\ \A c \in CardIds : cards'[c] = cards[c]

NoDuplicate(list) ==
  \A i, j \in 1..Len(list) : i # j => list[i] # list[j]

\* C27: a toggle invoked on a list without a repeated entry leaves a list
\* without a repeated entry, and a toggle that lengthens the list appends a
\* name the list did not hold
C27_ToggleAddsNoDuplicate ==
  [][ToggleInvoked
       => /\ NoDuplicate(blockedStreamers) => NoDuplicate(blockedStreamers')
          /\ Len(blockedStreamers') > Len(blockedStreamers)
               => ~arrayIncludes(blockedStreamers,
                                 blockedStreamers'[Len(blockedStreamers')])]_vars

\* a second toggle on Foo's card, invoked before the first one's write has
\* settled, has acted on the list that held Foo after Nova
C27_Witness ==
  /\ Len(pendingSet) = 2
  /\ ~pendingSet[1].isBlocked
  /\ pendingSet[1].value = <<T_Nova, T_Foo>>
  /\ pendingSet[2].isBlocked
  /\ NoDuplicate(blockedStreamers)

\* the step captures a card as the right-click target
Captures(c) == lastRightClickedCard' = c /\ cards[c].status = "attached"

\* the card's text holds no Hangul and no Latin letter
NoLetters(markup) ==
  \A i \in 1..Len(textContent(markup)) :
     ~IsHangul(textContent(markup)[i]) /\ ~IsLatin(textContent(markup)[i])

\* no descendant of the card has a class containing one of the words
NoClassContaining(markup, words) ==
  \A i \in 1..Len(markup.elems), w \in words :
     ~hasClassContaining(markup.elems[i].classes, w)

\* C29: a right-click on a card captures the card and changes nothing else:
\* the settings in memory, the store, the writes and timers pending, and every
\* card in the document (markers, styles, markup) stay as they are; the record
\* extracted from the card has the empty sequence for each field the card
\* does not provide
C29_ExtractionHasNoEffect ==
  [][\A c \in CardIds :
        (Captures(c) /\ lastRightClickedCard' # lastRightClickedCard) =>
          /\ UNCHANGED <<settingsVars, store, pendingSet, timerVars, inbox,
                         phase, observer>>
          /\ \A d \in CardIds :
                cards[d].status = "attached" => cards'[d] = cards[d]
          /\ LET markup == CardCatalog[cards[c].markup]
                 info == extractStreamerInfo(markup)
             IN  /\ NoClassContaining(markup, {S_title}) => info.title = <<>>
                 /\ NoClassContaining(markup, {S_title, S_tag, S_category, S_genre})
                      => info.tags = <<>>
                 /\ (NoClassContaining(markup, {S_name, S_channel, S_ellipsis})
                      /\ NoLetters(markup)) => info.name = <<>>]_vars

\* the card without a name, a title or a tag is the captured target while a
\* blocklist is in force and another card is hidden
C29_Witness ==
  /\ lastRightClickedCard # 0
  /\ cards[lastRightClickedCard].status = "attached"
  /\ CardCatalog[cards[lastRightClickedCard].markup] = AnonCard
  /\ blockedStreamers # <<>>
  /\ \E d \in CardIds : cards[d].status = "attached" /\ cards[d].hidden

\* C35: when the write of a toggle that added a name succeeds with the master
\* and the streamer switch on, every card in the document with that name is
\* hidden after the pass; when the write of a toggle that removed a name
\* succeeds, a card in the document with that name shows no trace of hiding
\* after the pass exactly when no entry of the two lists matches it under the
\* streamer or the tag rule
C35_ToggleTakesEffect ==
  [][SetResolved =>
        LET frame == Head(pendingSet)
            named == {c \in Attached(cards') :
                        CardInfo[cards'[c].markup].name = frame.name}
        IN  /\ (~frame.isBlocked /\ masterEnabled' /\ streamerEnabled') =>
                  \A c \in named : cards'[c].hidden /\ cards'[c].style = HiddenStyle
            /\ frame.isBlocked =>
                  \A c \in named :
                     Unsuppressed(cards'[c]) <=>
                       /\ \A b \in Range(blockedStreamers') : ~streamerRule(cards'[c].markup, b)
                       /\ \A b \in Range(blockedTags') : ~tagRule(cards'[c].markup, b)]_vars

Blocked(c) ==
  /\ phase = "running"
  /\ Gate
  /\ cards[c].status = "attached"
  /\ HideRule(cards[c].markup, Mem)

\* C23: while the gate is open, a card of the document whose record is
\* blocked is eventually hidden, and a hidden card stays hidden as long as it
\* stays blocked and the settings do not change
C23_EventuallyHidden ==
  /\ \A c \in CardIds : Blocked(c) ~> (cards[c].hidden \/ ~Blocked(c))
  /\ [][\A c \in CardIds :
          (cards[c].hidden /\ Blocked(c) /\ Blocked(c)' /\ UNCHANGED settingsVars)
            => cards'[c].hidden]_vars

\* a card inserted while the gate is open has been hidden, no timer pending
C23_Witness ==
  /\ Gate /\ NoTimerPending
  /\ ~streamerEnabled /\ blockedTags = <<T_game>>
  /\ \E c \in CardIds :
        Blocked(c) /\ cards[c].hidden /\ CardCatalog[cards[c].markup] = LunaCard

\* the cards the scan finds are hidden exactly when the rule selects them
Reconciled(cs, S) ==
  \A c \in Range(findStreamCards(cs)) : cs[c].hidden <=> HideRule(cs[c].markup, S)

\* C24: a window event that passes the gate and a batch with a card-like
\* element each schedule a pass of their own, also while other passes are
\* pending; a gated tick and a settings message run their pass at once; a
\* pending pass leaves the queue only by running, one at a time, and once no
\* further pass is scheduled every pending pass eventually runs
C24_NoTriggerDropped ==
  /\ [][
        /\ (WindowEvent /\ Gate)
              => applyTimers'["window"] = applyTimers["window"] + 1
        /\ \A c \in CardIds, m \in StreamCardMarkups :
              (InsertCard(c, m) /\ observer = "observing")
                => applyTimers'["observer"] = applyTimers["observer"] + 1
        /\ (IntervalTick /\ Gate) => Reconciled(cards', Mem')
        /\ \A settings \in SettingsMsgs :
              (UpdateBlockSettings(settings) /\ Gate') => Reconciled(cards', Mem')
        /\ \A src \in TimerSources :
              applyTimers'[src] < applyTimers[src]
                => /\ applyTimers'[src] = applyTimers[src] - 1
                   /\ (Gate' => Reconciled(cards', Mem'))
       ]_vars
  /\ <>[][\A src \in TimerSources : applyTimers'[src] <= applyTimers[src]]_applyTimers
       => <>[](\A src \in TimerSources : applyTimers[src] = 0)

\* three triggers have each scheduled a pass and none has run yet
C24_Witness ==
  /\ applyTimers["window"] = 2
  /\ applyTimers["observer"] = 1
  /\ Gate

(***************************************************************************)
(* Properties of the specification SpecCancel                              *)
(***************************************************************************)
\* a step in which applyBlocking is called by a trigger: a delayed call of the
\* observer or of a window listener runs, or the interval callback finds its
\* gate open and changes a card
PassStarts ==
  \/ \E src \in TimerSources : applyTimers'[src] < applyTimers[src]
  \/ IntervalTick /\ Gate /\ cards' # cards

\* C20: once the observer is detached, no pass starts from any trigger
C20_Cancellation == [][observer = "disconnected" => ~PassStarts]_vars

(***************************************************************************)
(* The matcher alone: one call of matchesStreamer or of matchesTag          *)
(***************************************************************************)
programVars == <<settingsVars, lastRightClickedCard, phase, observer, cards, store,
                 pendingSet, timerVars, inbox>>

InitMatch ==
  /\ ProgramInit
  /\ probe \in Probes
  /\ rule = NoRule
  /\ scan = NoScan
  /\ batch = NoBatch
  /\ extract = NoExtract
  /\ pass = NoPass

CallMatchesStreamer ==
  /\ rule.kind = "none"
  /\ rule' = [kind |-> "matchesStreamer",
              fired |-> matchesStreamer(probe.record, probe.entry)]
  /\ UNCHANGED <<probe, scan, batch, extract, pass, programVars>>

CallMatchesTag ==
  /\ rule.kind = "none"
  /\ rule' = [kind |-> "matchesTag",
              fired |-> matchesTag(probe.record, probe.entry)]
  /\ UNCHANGED <<probe, scan, batch, extract, pass, programVars>>

NextMatch ==
  \/ CallMatchesStreamer
  \/ CallMatchesTag

SpecMatch == InitMatch /\ [][NextMatch]_vars

(***************************************************************************)
(* Properties of the matcher, under SpecMatch                              *)
(***************************************************************************)
\* lowercase(x) contains lowercase(y)
ContainsCI(x, y) == includes(toLowerCase(x), toLowerCase(y))

\* a document that holds the card of markup m and nothing else
DocOf(m) ==
  [c \in CardIds |->
     IF c = 1
     THEN [Absent EXCEPT !.status = "attached", !.markup = m,
                         !.style.display = CardCatalog[m].style]
     ELSE Absent]

\* C4, as the specification states it: the streamer rule fires for a record
\* r and an entry b exactly when lowercase(r.name) contains lowercase(b), or
\* lowercase(b) contains lowercase(r.name), or lowercase(r.title) contains
\* lowercase(b)
C4_StreamerRuleAsStated ==
  rule.kind = "matchesStreamer" =>
    (rule.fired <=> \/ ContainsCI(probe.record.name, probe.entry)
                    \/ ContainsCI(probe.entry, probe.record.name)
                    \/ ContainsCI(probe.record.title, probe.entry))

\* C4, amended: the streamer rule fires exactly when, with b and r.name
\* stripped of surrounding whitespace, lowercase(r.name) contains
\* lowercase(b), or lowercase(b) contains lowercase(r.name), or
\* lowercase(r.title) contains lowercase(b); entry "abc" fires for name
\* "abc123", entry "abc123" fires for name "abc", and entry "xyz" does not
\* fire for name "abc" with a title that does not contain "xyz"
C4_StreamerRule ==
  rule.kind = "matchesStreamer" =>
    LET b == trim(probe.entry)
        n == trim(probe.record.name)
    IN  /\ rule.fired <=> \/ ContainsCI(n, b)
                           \/ ContainsCI(b, n)
                           \/ ContainsCI(probe.record.title, b)
        /\ (probe.entry = T_abc /\ probe.record.name = T_abc123) => rule.fired
        /\ (probe.entry = T_abc123 /\ probe.record.name = T_abc) => rule.fired
        /\ (/\ probe.entry = T_xyz
            /\ probe.record.name = T_abc
            /\ ~ContainsCI(probe.record.title, T_xyz)) => ~rule.fired

\* the rule has fired for a padded entry, and has not fired for "xyz"
C4_Witness ==
  /\ rule.kind = "matchesStreamer"
  /\ \/ /\ probe.entry = T_abc_padded
        /\ probe.record.name = T_abc123
        /\ probe.record.title = <<>>
        /\ rule.fired
     \/ /\ probe.entry = T_abc123
        /\ probe.record.name = T_abc
        /\ probe.record.title = <<>>
        /\ rule.fired

\* C5, as the specification states it: the tag rule fires for a record and a
\* blocked tag t exactly when some extracted tag contains t or is contained
\* in t, case-insensitively, or the title contains t; a tag read from a
\* tag/category/genre element and a tag derived from the title each suffice
\* to hide the card when blockedTags holds it and the tag and master
\* switches are on
C5_TagRuleAsStated ==
  rule.kind = "matchesTag" =>
    (rule.fired <=>
       \/ \E k \in 1..Len(probe.record.tags) :
             \/ ContainsCI(probe.record.tags[k], probe.entry)
             \/ ContainsCI(probe.entry, probe.record.tags[k])
       \/ ContainsCI(probe.record.title, probe.entry))

\* the tags of a card of markup m by origin
LabelledTagsOf(m) == Range(labelledTags(CardCatalog[m].elems, 1, <<>>))

TitleTagsOf(m) == Range(titleWords(titleOf(CardCatalog[m])))

\* C5, amended: the tag rule fires exactly when, with t stripped of
\* surrounding whitespace and all comparisons made on lower-cased text, some
\* extracted tag contains t or is contained in t, or the title contains t; a
\* tag read from a tag/category/genre element and a tag derived from the
\* title each suffice to hide the card when blockedTags holds it and the tag
\* and master switches are on
C5_TagRule ==
  rule.kind = "matchesTag" =>
    LET t == trim(probe.entry)
    IN  /\ rule.fired <=>
              \/ \E k \in 1..Len(probe.record.tags) :
                    \/ ContainsCI(probe.record.tags[k], t)
                    \/ ContainsCI(t, probe.record.tags[k])
              \/ ContainsCI(probe.record.title, t)
        /\ (/\ probe.markup # 0
            /\ probe.entry \in LabelledTagsOf(probe.markup) \cup TitleTagsOf(probe.markup))
           => /\ rule.fired
              /\ \A s \in BOOLEAN :
                    applyBlocking(DocOf(probe.markup),
                                  Settings(TRUE, s, TRUE, <<>>, <<probe.entry>>))[1].hidden

\* the rule has fired for a labelled tag of a card, for a tag derived from
\* its title, and for a padded entry
C5_Witness ==
  /\ rule.kind = "matchesTag"
  /\ rule.fired
  /\ \/ probe.markup # 0 /\ probe.entry \in LabelledTagsOf(probe.markup)
     \/ probe.markup # 0 /\ probe.entry \in TitleTagsOf(probe.markup)
     \/ /\ probe.entry = T_game_padded
        /\ probe.record.tags = <<T_games>>
        /\ probe.record.title = <<>>

(***************************************************************************)
(* The card scan alone: the page inserts and removes elements and          *)
(* findStreamCards is called on the document, on an engine that rejects    *)
(* the queries of the set unsupported                                      *)
(***************************************************************************)
\* the sets of catalog queries an engine rejects: none, the first attribute
\* substring query, the last query
UnsupportedQueries == {{}, {4}, {Len(selectors)}}

\* selectors.forEach(selector => document.querySelectorAll(selector) ...):
\* querySelectorAll throws on a query the engine rejects and neither the
\* callback nor findStreamCards catches
findStreamCardsThrows(unsupported) ==
  \E k \in 1..Len(selectors) : k \in unsupported

CallFindStreamCards(unsupported) ==
  /\ scan' = IF findStreamCardsThrows(unsupported)
             THEN [called |-> TRUE, unsupported |-> unsupported, threw |-> TRUE,
                   result |-> <<>>]
             ELSE [called |-> TRUE, unsupported |-> unsupported, threw |-> FALSE,
                   result |-> findStreamCards(cards)]
  /\ UNCHANGED <<probe, rule, batch, extract, pass, programVars>>

NextScan ==
  \/ \E c \in CardIds, m \in 1..Len(CardCatalog) : InsertCard(c, m)
  \/ \E c \in CardIds : RemoveCard(c)
  \/ \E unsupported \in UnsupportedQueries : CallFindStreamCards(unsupported)

SpecScan == Init /\ [][NextScan]_vars

(***************************************************************************)
(* Properties of the card scan, under SpecScan                             *)
(***************************************************************************)
\* the attached elements of cs that a catalog query outside skipped matches
MatchedBy(cs, skipped) ==
  {c \in CardIds :
     /\ cs[c].status = "attached"
     /\ \E k \in 1..Len(selectors) :
           k \notin skipped /\ matchesSelector(CardCatalog[cs[c].markup], selectors[k])}

\* C21: when the engine rejects queries of the catalog, the scan does not
\* throw and returns the elements the other queries match
C21_SelectorExceptionIsolated ==
  [][\A unsupported \in UnsupportedQueries :
        CallFindStreamCards(unsupported)
          => /\ ~scan'.threw
             /\ Range(scan'.result) = MatchedBy(cards, unsupported)]_vars

\* C22: findStreamCards returns the elements matched by at least one query
\* of the catalog, each once, and changes neither the document nor the
\* settings
C22_ScanIsDedupedUnion ==
  [][CallFindStreamCards({})
       => /\ Range(scan'.result) = MatchedBy(cards, {})
          /\ Len(scan'.result) = Cardinality(MatchedBy(cards, {}))
          /\ UNCHANGED programVars]_vars

\* a scan of a document holding a card several queries match and an element
\* no query matches
C22_Witness ==
  /\ scan.called /\ ~scan.threw
  /\ scan.result = <<1>>
  /\ cards[1].status = "attached" /\ CardCatalog[cards[1].markup] = NovaCard
  /\ cards[2].status = "attached" /\ CardCatalog[cards[2].markup] = FooterDiv

(***************************************************************************)
(* The observer callback on whole batches: mutation records with added     *)
(* text and element nodes, under any settings                              *)
(***************************************************************************)
MaxAdded == 2

MaxRecords == 2

TextNode == [nodeType |-> "TEXT_NODE", markup |-> 0]

ElementNode(m) == [nodeType |-> "ELEMENT_NODE", markup |-> m]

\* the nodes a record adds: text, a card, an element with a card-like
\* descendant, an element that is not card-like
BatchNodes ==
  {TextNode} \cup
  {ElementNode(m) : m \in {n \in 1..Len(CardCatalog) :
                              CardCatalog[n] \in {NovaCard, WrapperDiv, FooterDiv}}}

\* a record with no added node reports removals only
MutationRecords ==
  {[type |-> "childList", addedNodes |-> ns] :
     ns \in UNION {[1..n -> BatchNodes] : n \in 0..MaxAdded}}

\* batches of one record, and batches of up to MaxRecords records that add at
\* most one node each
Batches ==
  [1..1 -> MutationRecords] \cup
  UNION {[1..n -> {r \in MutationRecords : Len(r.addedNodes) <= 1}] :
           n \in 2..MaxRecords}

\* isStreamCard per markup
IsStreamCard == [m \in 1..Len(CardCatalog) |-> isStreamCard(CardCatalog[m])]

\* the body of mutations.forEach: the record reaches `shouldReapply = true`
recordHasCard(mutation) ==
  /\ mutation.type = "childList"
  /\ Len(mutation.addedNodes) > 0
  /\ \E i \in 1..Len(mutation.addedNodes) :
        /\ mutation.addedNodes[i].nodeType = "ELEMENT_NODE"
        /\ IsStreamCard[mutation.addedNodes[i].markup]

\* the MutationObserver callback on a batch
ObserverCallback(mutations) ==
  /\ observer = "observing"
  /\ applyTimers["observer"] = 0
  /\ attachTimers = 0
  /\ LET withCard == {r \in 1..Len(mutations) : recordHasCard(mutations[r])}
         shouldReapply == withCard # {}
     IN  /\ attachTimers' = Cardinality(withCard)
         /\ applyTimers' = IF shouldReapply
                           THEN [applyTimers EXCEPT !["observer"] = @ + 1]
                           ELSE applyTimers
  /\ batch' = [called |-> TRUE, mutations |-> mutations]
  /\ UNCHANGED <<probe, rule, scan, extract, pass, settingsVars, lastRightClickedCard, phase,
                 observer, cards, store, pendingSet, inbox>>

NextObserver ==
  \/ LoadSettingsResolved
  \/ LoadSettingsRejected
  \/ \E settings \in SettingsMsgs : UpdateBlockSettings(settings)
  \/ \E mutations \in Batches : ObserverCallback(mutations)
  \/ ApplyTimerFires
  \/ AttachTimerFires

SpecObserver == Init /\ [][NextObserver]_vars

(***************************************************************************)
(* Properties of the observer callback, under SpecObserver                 *)
(***************************************************************************)
\* the element or one of its descendants has a class holding "card" or "item"
CardLike(markup) ==
  LET holds(classes) ==
        \E k \in 1..Len(classes) :
           includes(classes[k], S_card) \/ includes(classes[k], S_item)
  IN  \/ holds(markup.classes)
      \/ \E i \in 1..Len(markup.elems) : holds(markup.elems[i].classes)

\* the batch has a record that adds a card-like element
Qualifies(mutations) ==
  \E r \in 1..Len(mutations) :
     \E i \in 1..Len(mutations[r].addedNodes) :
        /\ mutations[r].addedNodes[i] # TextNode
        /\ CardLike(CardCatalog[mutations[r].addedNodes[i].markup])

\* C25: the observer callback schedules a pass exactly for a batch holding a
\* record that adds an element which is, or contains, a card-like element,
\* whatever the master switch and the lists are; no other batch schedules one
C25_StructuralTrigger ==
  [][(batch'.called /\ ObserverCallback(batch'.mutations))
       => IF Qualifies(batch'.mutations)
          THEN applyTimers'["observer"] = applyTimers["observer"] + 1
          ELSE UNCHANGED <<applyTimers, attachTimers>>]_vars

\* with the master switch off, a batch whose only card-like node is an
\* element with a card-like descendant, after a text node, has scheduled a pass
C25_Witness ==
  /\ ~masterEnabled
  /\ batch.called
  /\ Len(batch.mutations) = 1
  /\ Len(batch.mutations[1].addedNodes) = 2
  /\ batch.mutations[1].addedNodes[1] = TextNode
  /\ batch.mutations[1].addedNodes[2] # TextNode
  /\ CardCatalog[batch.mutations[1].addedNodes[2].markup] = WrapperDiv
  /\ applyTimers["observer"] = 1

(***************************************************************************)
(* The extraction alone: the page renders a card descendant by descendant  *)
(* and extractStreamerInfo is called on the card.                          *)
(***************************************************************************)
MaxElems == 3

C_name_text_hash == <<"n","a","m","e","_","t","e","x","t","_","_","y","Q","G","5","0">>
C_video_channel  == <<"v","i","d","e","o","_","c","h","a","n","n","e","l">>
C_text_ellipsis  == <<"t","e","x","t","_","e","l","l","i","p","s","i","s">>
C_video_title    == <<"v","i","d","e","o","_","t","i","t","l","e">>
C_video_category == <<"v","i","d","e","o","_","c","a","t","e","g","o","r","y">>
C_thumb          == <<"t","h","u","m","b">>

\* a text of n characters
Filler(n) == [i \in 1..n |-> "x"]

\* the descendants the page renders in a card
ProbeElems ==
  { El(<<C_name_text_hash>>, <<" ","N","o","v","a","_","T","V"," ">>),
    El(<<C_name_text_hash>>, Filler(MaxNameLen - 1)),
    El(<<C_name_text_hash>>, Filler(MaxNameLen)),
    El(<<C_name_text_hash>>, Filler(MaxNameLen - 4) \o S_LIVE),
    El(<<C_name_text_hash>>, <<" "," ">>),
    El(<<C_video_channel>>, <<"L","u","n","a"," ","c","h","a","n","n","e","l">>),
    El(<<C_video_channel>>, <<"L","I","V","E"," ","c","h","a","n","n","e","l">>),
    El(<<C_text_ellipsis>>, T_Foo),
    El(<<C_video_title>>, <<"L","I","V","E"," ","c","h","e","s","s"," ","[","f","u","n","]">>),
    El(<<C_video_category>>, T_game),
    El(<<C_thumb>>, <<"B","a","r"," ","1","2",":","3","0">>) }

\* the card holding the descendants
ProbeCard(elems) ==
  [tag |-> "li", classes |-> << C_nav_item_hash >>, style |-> "", elems |-> elems]

\* the page renders one more descendant in the card
AddElement(e) ==
  /\ Len(extract.elems) < MaxElems
  /\ extract' = [NoExtract EXCEPT !.elems = Append(extract.elems, e)]
  /\ UNCHANGED <<probe, rule, scan, batch, pass, programVars>>

CallExtractStreamerInfo ==
  /\ ~extract.called
  /\ extract' = [extract EXCEPT !.called = TRUE,
                                !.info = extractStreamerInfo(ProbeCard(extract.elems))]
  /\ UNCHANGED <<probe, rule, scan, batch, pass, programVars>>

NextExtract ==
  \/ \E e \in ProbeElems : AddElement(e)
  \/ CallExtractStreamerInfo

SpecExtract == Init /\ [][NextExtract]_vars

(***************************************************************************)
(* Properties of the extraction, under SpecExtract                         *)
(***************************************************************************)
\* the element's class tokens name it as a carrier of the name and of nothing
\* else
NameOnly(e) ==
  /\ \E w \in {S_channel, S_name, S_ellipsis} : hasClassContaining(e.classes, w)
  /\ \A w \in {S_title, S_tag, S_category, S_genre} : ~hasClassContaining(e.classes, w)

\* C30: the name returned is the trimmed text of the display-name element
\* when that text has 1 to 49 characters; otherwise the cleaned text of the
\* first descendant whose class tokens contain channel, name or ellipsis and
\* whose cleaned text has 1 to 49 characters; otherwise what the scan of the
\* whole card's text yields; the title and the tags are those of the card
\* without its name-only descendants
C30_NamePriority ==
  extract.called =>
    LET E == extract.elems
        info == extract.info
        display == {i \in 1..Len(E) : classAttrContains(E[i].classes, S_name_text)}
        step1 == /\ display # {}
                 /\ Len(trim(E[Min(display)].text)) \in 1..(MaxNameLen - 1)
        cands == {i \in 1..Len(E) :
                    /\ \E w \in {S_channel, S_name, S_ellipsis} :
                          hasClassContaining(E[i].classes, w)
                    /\ Len(cleanName(E[i].text)) \in 1..(MaxNameLen - 1)}
        rest == extractStreamerInfo(ProbeCard(SelectSeq(E, LAMBDA e : ~NameOnly(e))))
    IN  /\ step1 => info.name = trim(E[Min(display)].text)
        /\ (~step1 /\ cands # {}) => info.name = cleanName(E[Min(cands)].text)
        /\ (~step1 /\ cands = {}) => info.name = nameFromText(ProbeCard(E))
        /\ info.title = rest.title
        /\ info.tags = rest.tags

\* the display-name text is too long, the first channel element cleans to
\* nothing, the second one gives the name
C30_Witness ==
  /\ extract.called
  /\ extract.elems =
       << El(<<C_name_text_hash>>, Filler(MaxNameLen)),
          El(<<C_video_channel>>, <<"L","I","V","E"," ","c","h","a","n","n","e","l">>),
          El(<<C_video_channel>>, <<"L","u","n","a"," ","c","h","a","n","n","e","l">>) >>
  /\ extract.info.name = T_Luna

(***************************************************************************)
(* The pass card by card: applyBlocking entered from an expired timer,     *)
(* its forEach one card at a time.  A handler of the page's one thread is  *)
(* dispatched when no other is on the stack.                               *)
(***************************************************************************)
\* applyBlocking yielding between two cards
IdleOrYielded == pass.stage = "idle" \/ pass.judged # {}

\* applyBlocking is synchronous: no handler is dispatched before it returns
Idle == pass.stage = "idle"

\* the elements the page renders: two cards and an element that is no card
PassElements ==
  {m \in 1..Len(CardCatalog) : CardCatalog[m] \in {AnonCard, FooCard, FooterDiv}}

\* applyBlocking looping over every element of the document
BeginPassEveryElement ==
  /\ Idle
  /\ \E src \in TimerSources :
        /\ applyTimers[src] > 0
        /\ applyTimers' = [applyTimers EXCEPT ![src] = @ - 1]
  /\ IF ~masterEnabled \/ Len(blockedStreamers) + Len(blockedTags) = 0
     THEN /\ cards' = showAllStreamCards(cards)
          /\ pass' = [stage |-> "running", todo |-> <<>>, judged |-> {},
                      settings |-> Mem, start |-> cards]
     ELSE /\ cards' = cards
          /\ pass' = [stage |-> "running",
                      todo |-> SelectSeq([c \in CardIds |-> c],
                                         LAMBDA c : cards[c].status = "attached"),
                      judged |-> {}, settings |-> Mem, start |-> cards]
  /\ UNCHANGED <<probe, rule, scan, batch, extract, settingsVars, lastRightClickedCard,
                 phase, observer, store, pendingSet, attachTimers, inbox>>

\* a setTimeout(() => this.applyBlocking(), ...) expires: applyBlocking up to
\* its forEach
BeginPass ==
  /\ Idle
  /\ \E src \in TimerSources :
        /\ applyTimers[src] > 0
        /\ applyTimers' = [applyTimers EXCEPT ![src] = @ - 1]
  /\ IF ~masterEnabled \/ Len(blockedStreamers) + Len(blockedTags) = 0
     THEN /\ cards' = showAllStreamCards(cards)
          /\ pass' = [stage |-> "running", todo |-> <<>>, judged |-> {},
                      settings |-> Mem, start |-> cards]
     ELSE /\ cards' = cards
          /\ pass' = [stage |-> "running", todo |-> findStreamCards(cards),
                      judged |-> {}, settings |-> Mem, start |-> cards]
  /\ UNCHANGED <<probe, rule, scan, batch, extract, settingsVars, lastRightClickedCard,
                 phase, observer, store, pendingSet, attachTimers, inbox>>

\* one turn of streamCards.forEach
PassStep ==
  /\ pass.stage = "running"
  /\ pass.todo # <<>>
  /\ LET card == Head(pass.todo)
     IN  cards' = [cards EXCEPT ![card] =
                     setCardVisibility(cards[card], ~shouldHideCard(cards[card].markup, Mem))]
  /\ pass' = [pass EXCEPT !.todo = Tail(pass.todo), !.judged = @ \cup {Mem}]
  /\ UNCHANGED <<probe, rule, scan, batch, extract, settingsVars, lastRightClickedCard,
                 phase, observer, store, pendingSet, timerVars, inbox>>

\* applyBlocking returns
EndPass ==
  /\ pass.stage = "running"
  /\ pass.todo = <<>>
  /\ pass' = NoPass
  /\ UNCHANGED <<probe, rule, scan, batch, extract, programVars>>

NextPass ==
  \/ Idle /\ LoadSettingsResolved
  \/ Idle /\ LoadSettingsRejected
  \/ \E settings \in SettingsMsgs : Idle /\ UpdateBlockSettings(settings)
  \/ Idle /\ WindowEvent
  \/ \E c \in CardIds, m \in PassElements : Idle /\ InsertCard(c, m)
  \/ Idle /\ AttachTimerFires
  \/ \E c \in CardIds : Idle /\ RightClick(c)
  \/ Idle /\ HandleContextMenu
  \/ Idle /\ SetResolved
  \/ Idle /\ SetRejected
  \/ BeginPass
  \/ PassStep
  \/ EndPass

SpecPass == Init /\ [][NextPass]_vars

(***************************************************************************)
(* Properties of the pass, under SpecPass                                  *)
(***************************************************************************)
\* C32: while applyBlocking is on the stack no other handler runs: the flags,
\* the lists, the store, the pending writes and timers and the captured
\* target stay as they are, every card of the pass is judged against the
\* settings the pass started with, and when the pass returns the document is
\* what one uninterrupted pass over the document it started on yields
C32_PassesAtomic ==
  /\ \A S \in pass.judged : S = pass.settings
  /\ [][pass.stage = "running" =>
          /\ UNCHANGED <<settingsVars, store, pendingSet, lastRightClickedCard,
                         timerVars, inbox, phase, observer>>
          /\ pass'.stage = "running" => pass'.start = pass.start
          /\ pass'.stage = "idle" => cards = applyBlocking(pass.start, pass.settings)]_vars

\* the pass is between two cards: the first one is judged and hidden, the
\* second one is still to be judged
C32_Witness ==
  /\ pass.stage = "running"
  /\ Len(pass.todo) = 1
  /\ pass.judged = {Mem}
  /\ \E c \in CardIds : c \notin Range(pass.todo) /\ cards[c].hidden

\* C34: from its entry to its return applyBlocking changes the hidden marker,
\* the processed marker and the style only of elements a query of the catalog
\* matches, or, when blocking is disabled, only of elements that carry the
\* hidden marker; it changes neither the flags, the lists, the store, the
\* captured target nor the handler marker and the listeners of any element
C34_PassFrame ==
  [][(pass.stage = "running" \/ pass'.stage = "running") =>
        LET S == IF pass.stage = "running" THEN pass.settings ELSE pass'.settings
        IN  /\ UNCHANGED <<settingsVars, store, lastRightClickedCard>>
            /\ \A c \in CardIds :
                  /\ cards'[c].status = cards[c].status
                  /\ cards'[c].markup = cards[c].markup
                  /\ cards'[c].menu = cards[c].menu
                  /\ cards'[c].listeners = cards[c].listeners
                  /\ cards'[c] # cards[c] =>
                       IF S.masterEnabled
                          /\ Len(S.blockedStreamers) + Len(S.blockedTags) > 0
                       THEN c \in MatchedBy(cards, {})
                       ELSE cards[c].status = "attached" /\ cards[c].hidden]_vars

\* the loop is over: the card is hidden and marked, the element that is no
\* card carries no marker
C34_Witness ==
  /\ pass.stage = "running"
  /\ pass.todo = <<>>
  /\ pass.judged # {}
  /\ \E c \in CardIds :
        /\ cards[c].status = "attached"
        /\ CardCatalog[cards[c].markup] = FooterDiv
        /\ ~cards[c].processed
  /\ \E c \in CardIds :
        /\ cards[c].status = "attached"
        /\ cards[c].hidden
        /\ cards[c].processed

=============================================================================
